---- MODULE Spec2Model ----
(***************************************************************************)
(* Model of the zlocalz consistency engine: Validator (core/validator.ts), *)
(* Fixer (core/fixer.ts) and the validate / auto-fix part of runCLI.       *)
(*                                                                         *)
(* Text.  A string is a sequence of tokens.  A token is one of the three   *)
(* characters the code's regular expressions tell apart, "{", "}" and the  *)
(* space " ", or a "word": a non-empty run of characters holding no brace  *)
(* and no whitespace (",", "plural", "Hola", "TODO", ...).  No word of the *)
(* vocabulary is a concatenation of other words, so two token sequences    *)
(* are equal exactly when the strings they stand for are equal.  No word   *)
(* holds a regular-expression metacharacter or "$".                        *)
(***************************************************************************)
EXTENDS Integers, Sequences, FiniteSets, TLC

----------------------------------------------------------------------------
(* Bounds *)

\* most entries in one locale file
MaxKeys == 2
\* most segments (a word, a space, a placeholder, a lone brace) in one string
\* of the specification of the fix generators
MaxSegments == 2

----------------------------------------------------------------------------
(* String primitives of JavaScript used by the code *)

Min(a, b) == IF a < b THEN a ELSE b

TODO == <<"TODO">>

IsSpace(t) == t = " "

\* String.prototype.trim
RECURSIVE TrimStart(_)
TrimStart(s) ==
  IF s # <<>> /\ IsSpace(Head(s)) THEN TrimStart(Tail(s)) ELSE s

RECURSIVE TrimEnd(_)
TrimEnd(s) ==
  IF s # <<>> /\ IsSpace(s[Len(s)]) THEN TrimEnd(SubSeq(s, 1, Len(s) - 1)) ELSE s

Trim(s) == TrimEnd(TrimStart(s))

\* value.includes('  ')
IncludesDoubleSpace(s) ==
  \E i \in 1..(Len(s) - 1) : s[i] = " " /\ s[i + 1] = " "

\* value.replace(/\s+/g, ' ')
RECURSIVE CollapseWhitespace(_)
CollapseWhitespace(s) ==
  IF s = <<>> THEN <<>>
  ELSE IF IsSpace(Head(s))
       THEN <<" ">> \o CollapseWhitespace(TrimStart(s))
       ELSE <<Head(s)>> \o CollapseWhitespace(Tail(s))

\* index of the first "}" at or after position i, 0 when there is none
RECURSIVE FirstClose(_, _)
FirstClose(s, i) ==
  IF i > Len(s) THEN 0
  ELSE IF s[i] = "}" THEN i ELSE FirstClose(s, i + 1)

\* the exec loop over /\{([^}]+)\}/g, scanning from position i
RECURSIVE ExtractFrom(_, _)
ExtractFrom(s, i) ==
  IF i > Len(s) THEN <<>>
  ELSE IF s[i] # "{" THEN ExtractFrom(s, i + 1)
  ELSE LET j == FirstClose(s, i + 1)
       IN  IF j = 0 THEN <<>>
           ELSE IF j = i + 1 THEN ExtractFrom(s, i + 1)
           ELSE <<SubSeq(s, i + 1, j - 1)>> \o ExtractFrom(s, j + 1)

extractPlaceholders(value) == ExtractFrom(value, 1)

IsBrace(t) == t \in {"{", "}"}

RECURSIVE SkipNonBrace(_)
SkipNonBrace(s) ==
  IF s # <<>> /\ ~IsBrace(Head(s)) THEN SkipNonBrace(Tail(s)) ELSE s

\* value.replace(/[^{}]+/g, 'TODO')
RECURSIVE ReplaceNonBraceRuns(_)
ReplaceNonBraceRuns(s) ==
  IF s = <<>> THEN <<>>
  ELSE IF IsBrace(Head(s))
       THEN <<Head(s)>> \o ReplaceNonBraceRuns(Tail(s))
       ELSE TODO \o ReplaceNonBraceRuns(SkipNonBrace(s))

IsPrefix(p, s) == Len(p) <= Len(s) /\ SubSeq(s, 1, Len(p)) = p

\* s.replace(new RegExp(pat, 'g'), rep) for a pattern without metacharacters
RECURSIVE ReplaceAll(_, _, _)
ReplaceAll(s, pat, rep) ==
  IF s = <<>> THEN <<>>
  ELSE IF IsPrefix(pat, s)
       THEN rep \o ReplaceAll(SubSeq(s, Len(pat) + 1, Len(s)), pat, rep)
       ELSE <<Head(s)>> \o ReplaceAll(Tail(s), pat, rep)

Braced(name) == <<"{">> \o name \o <<"}">>

----------------------------------------------------------------------------
(* Values and keys the locale files are built from *)

\* an optional field that is absent (undefined); no value of a file equals it
Undefined == <<"<undefined>">>

\* !x for an optional string: undefined or the empty string
Falsy(v) == v = Undefined \/ v = <<>>

Keys == {"a", "b", "7"}

\* keys that are canonical array indices: a JavaScript object lists them
\* first, in ascending numeric order, before its other keys
IndexKeys == {"7"}

IndexValue(k) == CASE k = "7" -> 7 [] OTHER -> 0

\* the keys in the order of Array.prototype.sort (UTF-16 code units)
SortedKeys == <<"7", "a", "b">>

KeyRank(k) == CHOOSE i \in 1..Len(SortedKeys) : SortedKeys[i] = k

sHi == <<"Hi">>
sHiUser == <<"Hi", " ", "{", "user", "}">>
sPluralOneOther ==
  <<"{", "n", ",", " ", "plural", ",", " ", "one", "{", "x", "}", " ",
    "other", "{", "y", "}", "}">>
sPluralOther ==
  <<"{", "n", ",", " ", "plural", ",", " ", "other", "{", "y", "}", "}">>
sOK == <<"OK">>
sPaddedOK == <<" ", " ", "OK", " ", " ">>
sHolaUsuario == <<"Hola", " ", "{", "usuario", "}">>
sTwoWords == <<"Hi", " ", " ", "OK">>

SourceValues == {sHi, sHiUser, sPluralOneOther}

TargetValues == {sOK, sPaddedOK, sHolaUsuario, sTwoWords, TODO, sPluralOther}

----------------------------------------------------------------------------
(* Locale files (types/index.ts LocaleFile, LocaleEntry) *)

NoMetadata == "none"

\* the keys of a file that carry an "@key" metadata block when parsed
MetadataKeys == {"a"}

RawValue(k) == <<"value", k>>
RawMeta(k) == <<"@", k>>
RawLocale == <<"@@locale">>

Range(seq) == {seq[i] : i \in 1..Len(seq)}

\* Object.keys order: array-index keys ascending, then insertion order
IsObjectKeyOrder(ks) ==
  \A i \in 1..Len(ks), j \in 1..Len(ks) :
    i < j =>
      /\ ks[i] # ks[j]
      /\ ks[j] \in IndexKeys =>
           (ks[i] \in IndexKeys /\ IndexValue(ks[i]) < IndexValue(ks[j]))

KeyOrders ==
  {ks \in UNION {[1..n -> Keys] : n \in 0..MaxKeys} : IsObjectKeyOrder(ks)}

\* the file parseFile / parseJsonEntries builds from an ARB or JSON document
\* holding the keys ks with the values vals
ParsedFile(loc, ks, vals, meta) ==
  [locale |-> loc,
   keys |-> ks,
   entries |-> [k \in Range(ks) |->
                  [value |-> vals[k],
                   metadata |-> IF k \in MetadataKeys THEN meta ELSE NoMetadata]],
   raw |-> {RawLocale} \cup {RawValue(k) : k \in Range(ks)}
             \cup {RawMeta(k) : k \in Range(ks) \cap MetadataKeys}]

FilesOver(loc, values, meta) ==
  UNION {{ParsedFile(loc, ks, vals, meta) : vals \in [Range(ks) -> values]} :
           ks \in KeyOrders}

HasKey(file, k) == k \in DOMAIN file.entries

\* obj[k] = e on the entries object: a new key takes its place in key order
RECURSIVE InsertKey(_, _)
InsertKey(ks, k) ==
  IF k \in Range(ks) THEN ks
  ELSE IF k \notin IndexKeys THEN Append(ks, k)
  ELSE IF ks = <<>> THEN <<k>>
  ELSE IF Head(ks) \in IndexKeys /\ IndexValue(Head(ks)) < IndexValue(k)
       THEN <<Head(ks)>> \o InsertKey(Tail(ks), k)
       ELSE <<k>> \o ks

SetEntry(file, k, e) ==
  [file EXCEPT !.keys = InsertKey(file.keys, k),
               !.entries = [x \in DOMAIN file.entries \cup {k} |->
                              IF x = k THEN e ELSE file.entries[x]]]

\* delete obj[k] on the entries object
DeleteEntry(file, k) ==
  LET Keep(x) == x # k
  IN  [file EXCEPT !.keys = SelectSeq(file.keys, Keep),
                   !.entries = [x \in DOMAIN file.entries \ {k} |-> file.entries[x]]]

\* the entries object built by assigning the keys of ks in turn
RECURSIVE ObjectOf(_)
ObjectOf(ks) ==
  IF ks = <<>> THEN <<>> ELSE InsertKey(ObjectOf(SubSeq(ks, 1, Len(ks) - 1)), ks[Len(ks)])

----------------------------------------------------------------------------
(* parse of @messageformat/parser, as far as the Validator reads its result: *)
(* whether the message parses, and the types of its top-level tokens         *)

RECURSIVE SkipSpaces(_, _)
SkipSpaces(s, i) ==
  IF i <= Len(s) /\ IsSpace(s[i]) THEN SkipSpaces(s, i + 1) ELSE i

IsWord(t) == t \notin {"{", "}", " ", ","}

At(s, i) == IF i >= 1 /\ i <= Len(s) THEN s[i] ELSE ""

ParseFail == [ok |-> FALSE, types |-> <<>>, next |-> 0]

\* end of the run of content that starts at i
RECURSIVE ContentEnd(_, _, _)
ContentEnd(s, i, atRoot) ==
  IF i > Len(s) \/ s[i] = "{" \/ (s[i] = "}" /\ ~atRoot) THEN i
  ELSE ContentEnd(s, i + 1, atRoot)

RECURSIVE ParseBody(_, _, _)
RECURSIVE ParseArg(_, _)
RECURSIVE ParseCases(_, _, _)

ParseBody(s, i, atRoot) ==
  IF i > Len(s) THEN [ok |-> atRoot, types |-> <<>>, next |-> i]
  ELSE IF s[i] = "}" /\ ~atRoot THEN [ok |-> TRUE, types |-> <<>>, next |-> i + 1]
  ELSE IF s[i] = "{"
       THEN LET a == ParseArg(s, i + 1)
            IN  IF ~a.ok THEN ParseFail
                ELSE LET r == ParseBody(s, a.next, atRoot)
                     IN  [ok |-> r.ok, types |-> a.types \o r.types, next |-> r.next]
       ELSE LET r == ParseBody(s, ContentEnd(s, i, atRoot), atRoot)
            IN  [ok |-> r.ok, types |-> <<"content">> \o r.types, next |-> r.next]

ParseArg(s, i) ==
  LET i1 == SkipSpaces(s, i)
      i2 == SkipSpaces(s, i1 + 1)
      i3 == SkipSpaces(s, i2 + 1)
      i4 == SkipSpaces(s, i3 + 1)
      typ == At(s, i3)
  IN  IF ~IsWord(At(s, i1)) \/ At(s, i1) = "" THEN ParseFail
      ELSE IF At(s, i2) = "}" THEN [ok |-> TRUE, types |-> <<"argument">>, next |-> i2 + 1]
      ELSE IF At(s, i2) # "," \/ ~IsWord(typ) \/ typ = "" THEN ParseFail
      ELSE IF typ \in {"plural", "select", "selectordinal"}
           THEN IF At(s, i4) # "," THEN ParseFail
                ELSE LET c == ParseCases(s, i4 + 1, 0)
                     IN  [ok |-> c.ok, types |-> <<typ>>, next |-> c.next]
      ELSE IF At(s, i4) = "}" THEN [ok |-> TRUE, types |-> <<"function">>, next |-> i4 + 1]
      ELSE IF At(s, i4) = ","
           THEN LET b == ParseBody(s, i4 + 1, FALSE)
                IN  [ok |-> b.ok, types |-> <<"function">>, next |-> b.next]
      ELSE ParseFail

ParseCases(s, i, n) ==
  LET i1 == SkipSpaces(s, i)
      i2 == SkipSpaces(s, i1 + 1)
  IN  IF At(s, i1) = "}" THEN [ok |-> n > 0, types |-> <<>>, next |-> i1 + 1]
      ELSE IF ~IsWord(At(s, i1)) \/ At(s, i1) = "" \/ At(s, i2) # "{" THEN ParseFail
      ELSE LET b == ParseBody(s, i2 + 1, FALSE)
           IN  IF ~b.ok THEN ParseFail ELSE ParseCases(s, b.next, n + 1)

\* parseICU(value): ok = FALSE stands for the thrown ParseError
parseICU(value) == ParseBody(value, 1, TRUE)

----------------------------------------------------------------------------
(* Validator *)

Issue(type, file, key, message, severity, sourceValue, targetValue, suggestion) ==
  [type |-> type, locale |-> file.locale, key |-> key, message |-> message,
   severity |-> severity, sourceValue |-> sourceValue,
   targetValue |-> targetValue, suggestion |-> suggestion]

\* the concatenation of the issue lists f(k) over the keys of ks, in order
RECURSIVE FlatMap(_, _)
FlatMap(ks, f) ==
  IF ks = <<>> THEN <<>> ELSE f[Head(ks)] \o FlatMap(Tail(ks), f)

\* as checkMissingKeys, but a key counts as present only when its target
\* value is not blank
checkMissingKeys_BlankIsMissing(sourceFile, targetFile) ==
  FlatMap(sourceFile.keys,
    [key \in Range(sourceFile.keys) |->
       IF ~HasKey(targetFile, key) \/ Trim(targetFile.entries[key].value) = TODO
       THEN <<Issue("missing", targetFile, key, <<"is missing", key>>, "error",
                    sourceFile.entries[key].value, Undefined, Undefined)>>
       ELSE <<>>])

checkMissingKeys(sourceFile, targetFile) ==
  FlatMap(sourceFile.keys,
    [key \in Range(sourceFile.keys) |->
       IF ~HasKey(targetFile, key)
       THEN <<Issue("missing", targetFile, key, <<"is missing", key>>, "error",
                    sourceFile.entries[key].value, Undefined, Undefined)>>
       ELSE <<>>])

checkExtraKeys(sourceFile, targetFile) ==
  FlatMap(targetFile.keys,
    [key \in Range(targetFile.keys) |->
       IF ~HasKey(sourceFile, key)
       THEN <<Issue("extra", targetFile, key, <<"not in source locale", key>>, "warning",
                    Undefined, targetFile.entries[key].value, Undefined)>>
       ELSE <<>>])

\* the keys of seenValues, in insertion order
RECURSIVE SeenValues(_, _)
SeenValues(targetFile, ks) ==
  IF ks = <<>> THEN <<>>
  ELSE LET rest == SeenValues(targetFile, SubSeq(ks, 1, Len(ks) - 1))
           value == Trim(targetFile.entries[ks[Len(ks)]].value)
       IN  IF value \in Range(rest) THEN rest ELSE Append(rest, value)

\* seenValues.get(value): the keys holding the value, in document order
KeysWithValue(targetFile, value) ==
  LET Holds(k) == Trim(targetFile.entries[k].value) = value
  IN  SelectSeq(targetFile.keys, Holds)

RECURSIVE DuplicateIssues(_, _)
DuplicateIssues(targetFile, values) ==
  IF values = <<>> THEN <<>>
  ELSE LET value == Head(values)
           keys == KeysWithValue(targetFile, value)
       IN  [i \in 1..(Len(keys) - 1) |->
              Issue("duplicate", targetFile, keys[i + 1],
                    <<"Duplicate value with key", keys[1]>>, "warning",
                    Undefined, value, <<"Remove duplicate or differentiate from", keys[1]>>)]
           \o DuplicateIssues(targetFile, Tail(values))

\* as checkDuplicates, but grouping by the value as written, not trimmed
checkDuplicates_Untrimmed(targetFile) ==
  LET SameAsFirst(issue) ==
        targetFile.entries[issue.key].value = targetFile.entries[issue.message[2]].value
  IN  SelectSeq(DuplicateIssues(targetFile, SeenValues(targetFile, targetFile.keys)),
                SameAsFirst)

checkDuplicates(targetFile) ==
  DuplicateIssues(targetFile, SeenValues(targetFile, targetFile.keys))

checkPlaceholders(sourceFile, targetFile) ==
  FlatMap(sourceFile.keys,
    [key \in Range(sourceFile.keys) |->
       IF ~HasKey(targetFile, key) THEN <<>>
       ELSE LET sourcePlaceholders == extractPlaceholders(sourceFile.entries[key].value)
                targetPlaceholders == extractPlaceholders(targetFile.entries[key].value)
                targetPSet == Range(targetPlaceholders)
            IN  IF Len(sourcePlaceholders) # Len(targetPlaceholders)
                   \/ ~(\A i \in 1..Len(sourcePlaceholders) :
                          sourcePlaceholders[i] \in targetPSet)
                THEN <<Issue("placeholderMismatch", targetFile, key,
                             <<"Placeholder mismatch", sourcePlaceholders, targetPlaceholders>>,
                             "error", sourceFile.entries[key].value,
                             targetFile.entries[key].value, Undefined)>>
                ELSE <<>>])

IsInfix(p, s) == \E i \in 0..(Len(s) - Len(p)) : SubSeq(s, i + 1, i + Len(p)) = p

isICUMessage(value) ==
  /\ "{" \in Range(value)
  /\ \/ IsInfix(<<",", " ", "plural", ",">>, value)
     \/ IsInfix(<<",", " ", "select", ",">>, value)
     \/ IsInfix(<<",", " ", "selectordinal", ",">>, value)

\* the tokens of @messageformat/parser carry type, arg and cases, so of the
\* fields read here (type, argument, pluralType, options) only type is set
extractICUStructure(ast) == [i \in 1..Len(ast) |-> [type |-> ast[i]]]

compareICUStructure(ast1, ast2) == extractICUStructure(ast1) = extractICUStructure(ast2)

checkICUMessages(sourceFile, targetFile) ==
  FlatMap(sourceFile.keys,
    [key \in Range(sourceFile.keys) |->
       IF ~HasKey(targetFile, key) THEN <<>>
       ELSE LET sourceValue == sourceFile.entries[key].value
                targetValue == targetFile.entries[key].value
                sourceAST == parseICU(sourceValue)
                targetAST == parseICU(targetValue)
            IN  IF ~isICUMessage(sourceValue) THEN <<>>
                ELSE IF ~sourceAST.ok \/ ~targetAST.ok
                THEN <<Issue("icuError", targetFile, key, <<"Invalid ICU message">>,
                             "error", Undefined, targetValue, Undefined)>>
                ELSE IF ~compareICUStructure(sourceAST.types, targetAST.types)
                THEN <<Issue("icuError", targetFile, key,
                             <<"ICU structure mismatch with source">>,
                             "error", sourceValue, targetValue, Undefined)>>
                ELSE <<>>])

checkFormatting(targetFile) ==
  FlatMap(targetFile.keys,
    [key \in Range(targetFile.keys) |->
       LET value == targetFile.entries[key].value
       IN  (IF value # Trim(value)
            THEN <<Issue("formatting", targetFile, key,
                         <<"Value has leading or trailing whitespace">>, "warning",
                         Undefined, value, Trim(value))>>
            ELSE <<>>)
           \o
           (IF IncludesDoubleSpace(value)
            THEN <<Issue("formatting", targetFile, key,
                         <<"Value contains multiple consecutive spaces">>, "warning",
                         Undefined, value, CollapseWhitespace(value))>>
            ELSE <<>>)])

\* as validateTarget, with the formatting check run before the ICU check
validateTarget_FormattingEarly(sourceFile, targetFile) ==
  checkMissingKeys(sourceFile, targetFile)
    \o checkExtraKeys(sourceFile, targetFile)
    \o checkDuplicates(targetFile)
    \o checkPlaceholders(sourceFile, targetFile)
    \o checkFormatting(targetFile)
    \o checkICUMessages(sourceFile, targetFile)

validateTarget(sourceFile, targetFile) ==
  checkMissingKeys(sourceFile, targetFile)
    \o checkExtraKeys(sourceFile, targetFile)
    \o checkDuplicates(targetFile)
    \o checkPlaceholders(sourceFile, targetFile)
    \o checkICUMessages(sourceFile, targetFile)
    \o checkFormatting(targetFile)

CountType(issues, type) == Cardinality({i \in 1..Len(issues) : issues[i].type = type})

calculateStats(sourceFile, issues) ==
  [totalKeys |-> Len(sourceFile.keys),
   missingKeys |-> CountType(issues, "missing"),
   extraKeys |-> CountType(issues, "extra"),
   duplicates |-> CountType(issues, "duplicate"),
   icuErrors |-> CountType(issues, "icuError"),
   placeholderMismatches |-> CountType(issues, "placeholderMismatch"),
   formattingWarnings |-> CountType(issues, "formatting")]

----------------------------------------------------------------------------
(* Fixer *)

Fix(type, issue, oldValue, newValue) ==
  [type |-> type, locale |-> issue.locale, key |-> issue.key,
   oldValue |-> oldValue, newValue |-> newValue]

generateMissingKeyFix(sourceFile, issue) ==
  LET sourceEntry == sourceFile.entries[issue.key]
      placeholders == extractPlaceholders(sourceEntry.value)
  IN  Fix("addMissing", issue, Undefined,
          IF Len(placeholders) > 0 THEN ReplaceNonBraceRuns(sourceEntry.value) ELSE TODO)

generateExtraKeyFix(issue) == Fix("removeExtra", issue, issue.targetValue, Undefined)

generateDuplicateFix(issue, targetFile) ==
  Fix("removeDuplicate", issue,
      IF HasKey(targetFile, issue.key) THEN targetFile.entries[issue.key].value
      ELSE Undefined,
      Undefined)

\* placeholderMap after the loop: a Map keeps a key at the place of its first
\* set and holds the value of its last set
RECURSIVE PlaceholderMap(_, _, _)
PlaceholderMap(sourcePlaceholders, targetPlaceholders, n) ==
  IF n = 0 THEN <<>>
  ELSE LET m == PlaceholderMap(sourcePlaceholders, targetPlaceholders, n - 1)
           old == targetPlaceholders[n]
           new == sourcePlaceholders[n]
       IN  IF old = new THEN m
           ELSE IF \E i \in 1..Len(m) : m[i][1] = old
           THEN [i \in 1..Len(m) |-> IF m[i][1] = old THEN <<old, new>> ELSE m[i]]
           ELSE Append(m, <<old, new>>)

\* the replace loop over the entries of placeholderMap
RECURSIVE ApplyPlaceholderMap(_, _)
ApplyPlaceholderMap(value, m) ==
  IF m = <<>> THEN value
  ELSE ApplyPlaceholderMap(ReplaceAll(value, Braced(m[1][1]), Braced(m[1][2])), Tail(m))

generatePlaceholderFix(issue) ==
  IF Falsy(issue.sourceValue) \/ Falsy(issue.targetValue)
  THEN Fix("fixPlaceholder", issue, Undefined, Undefined)
  ELSE LET sourcePlaceholders == extractPlaceholders(issue.sourceValue)
           targetPlaceholders == extractPlaceholders(issue.targetValue)
           placeholderMap ==
             PlaceholderMap(sourcePlaceholders, targetPlaceholders,
                            Min(Len(sourcePlaceholders), Len(targetPlaceholders)))
       IN  Fix("fixPlaceholder", issue, issue.targetValue,
               ApplyPlaceholderMap(issue.targetValue, placeholderMap))

generateFormattingFix(issue) ==
  Fix("fixFormatting", issue, issue.targetValue,
      IF ~Falsy(issue.suggestion) THEN issue.suggestion
      ELSE IF issue.targetValue = Undefined THEN Undefined
      ELSE CollapseWhitespace(Trim(issue.targetValue)))

\* index of the first token t at or after position i, 0 when there is none
RECURSIVE FirstIndexOf(_, _, _)
FirstIndexOf(s, t, i) ==
  IF i > Len(s) THEN 0
  ELSE IF s[i] = t THEN i ELSE FirstIndexOf(s, t, i + 1)

\* end of the match of icuPattern that starts at position i, 0 when none does
IcuMatchEnd(s, i) ==
  LET c == FirstIndexOf(s, ",", i + 1)
      w == SkipSpaces(s, c + 1)
      j == FirstClose(s, w + 2)
  IN  IF /\ At(s, i) = "{"
         /\ c >= i + 2
         /\ At(s, w) \in {"plural", "select", "selectordinal"}
         /\ At(s, w + 1) = ","
         /\ j >= w + 3
      THEN j ELSE 0

\* the last element of [...sourceValue.matchAll(icuPattern)], <<>> when empty
RECURSIVE LastIcuMatch(_, _, _)
LastIcuMatch(s, i, last) ==
  IF i > Len(s) THEN last
  ELSE LET j == IcuMatchEnd(s, i)
       IN  IF j = 0 THEN LastIcuMatch(s, i + 1, last)
           ELSE LastIcuMatch(s, j + 1, SubSeq(s, i, j))

IsStructure(t) == t \in {"{", "}", " ", "="}

RECURSIVE SkipLabel(_)
SkipLabel(s) ==
  IF s # <<>> /\ ~IsStructure(Head(s)) THEN SkipLabel(Tail(s)) ELSE s

\* fullMatch.replace(/[^{}=\s]+(?=[^{}]*[{}])/g, 'TODO')
RECURSIVE StructureOnly(_)
StructureOnly(s) ==
  IF s = <<>> THEN <<>>
  ELSE IF IsStructure(Head(s)) THEN <<Head(s)>> \o StructureOnly(Tail(s))
  ELSE IF \E i \in 1..Len(s) : IsBrace(s[i])
       THEN TODO \o StructureOnly(SkipLabel(s))
       ELSE s

generateICUFix(issue) ==
  IF Falsy(issue.sourceValue)
  THEN Fix("fixICU", issue, Undefined, Undefined)
  ELSE LET fullMatch == LastIcuMatch(issue.sourceValue, 1, <<>>)
       IN  Fix("fixICU", issue, issue.targetValue,
               IF fullMatch # <<>> THEN StructureOnly(fullMatch)
               ELSE IF Falsy(issue.targetValue) THEN <<>>
               ELSE issue.targetValue)

generateFix(sourceFile, issue, targetFile) ==
  CASE issue.type = "missing" -> generateMissingKeyFix(sourceFile, issue)
    [] issue.type = "extra" -> generateExtraKeyFix(issue)
    [] issue.type = "duplicate" -> generateDuplicateFix(issue, targetFile)
    [] issue.type = "placeholderMismatch" -> generatePlaceholderFix(issue)
    [] issue.type = "formatting" -> generateFormattingFix(issue)
    [] issue.type = "icuError" -> generateICUFix(issue)

applyFix(sourceFile, fix, targetFile) ==
  CASE fix.type = "addMissing" ->
         LET sourceEntry == sourceFile.entries[fix.key]
         IN  SetEntry(targetFile, fix.key,
                      [value |-> IF Falsy(fix.newValue) THEN TODO ELSE fix.newValue,
                       metadata |-> sourceEntry.metadata])
    [] fix.type \in {"removeExtra", "removeDuplicate"} ->
         [DeleteEntry(targetFile, fix.key) EXCEPT
            !.raw = targetFile.raw \ {RawValue(fix.key), RawMeta(fix.key)}]
    [] fix.type \in {"fixPlaceholder", "fixFormatting", "fixICU"} ->
         IF ~Falsy(fix.newValue) /\ HasKey(targetFile, fix.key)
         THEN [targetFile EXCEPT !.entries[fix.key].value = fix.newValue]
         ELSE targetFile

reorderToMatchSource(sourceFile, targetFile) ==
  LET InTarget(k) == HasKey(targetFile, k)
      TargetOnly(k) == k \notin Range(sourceFile.keys)
  IN  [targetFile EXCEPT
         !.keys = ObjectOf(SelectSeq(sourceFile.keys, InTarget)
                             \o SelectSeq(targetFile.keys, TargetOnly))]

\* Array.prototype.sort of the keys
RECURSIVE SortKeys(_)
SortKeys(keys) ==
  IF keys = {} THEN <<>>
  ELSE LET first == CHOOSE k \in keys : \A x \in keys : KeyRank(k) <= KeyRank(x)
       IN  <<first>> \o SortKeys(keys \ {first})

reorderAlphabetically(targetFile) ==
  [targetFile EXCEPT !.keys = ObjectOf(SortKeys(Range(targetFile.keys)))]

\* as cloneDeep, but handing back the object it was given
cloneDeep_Alias(h, ref) == [heap |-> h, ref |-> ref]

\* lodash.cloneDeep(targetFile): a new object holding a copy of every field
cloneDeep(h, ref) ==
  [heap |-> [o \in DOMAIN h \cup {"copy"} |-> IF o = "copy" THEN h[ref] ELSE h[o]],
   ref |-> "copy"]

\* as FixLoop, but applying every generated fix, authorized or not
RECURSIVE FixLoop_Unauthorized(_, _, _, _, _)
FixLoop_Unauthorized(sourceFile, cfg, file, issues, n) ==
  IF n = 0 THEN [file |-> file, appliedFixes |-> <<>>]
  ELSE LET prev == FixLoop_Unauthorized(sourceFile, cfg, file, issues, n - 1)
           fix == generateFix(sourceFile, issues[n], prev.file)
       IN  [file |-> applyFix(sourceFile, fix, prev.file),
            appliedFixes |-> IF cfg.doAutoFix THEN Append(prev.appliedFixes, fix)
                             ELSE prev.appliedFixes]

\* the loop of autoFix over the first n issues, on the file fixedFile refers to
RECURSIVE FixLoop(_, _, _, _, _)
FixLoop(sourceFile, cfg, file, issues, n) ==
  IF n = 0 THEN [file |-> file, appliedFixes |-> <<>>]
  ELSE LET prev == FixLoop(sourceFile, cfg, file, issues, n - 1)
           fix == generateFix(sourceFile, issues[n], prev.file)
       IN  IF cfg.doAutoFix
           THEN [file |-> applyFix(sourceFile, fix, prev.file),
                 appliedFixes |-> Append(prev.appliedFixes, fix)]
           ELSE prev

\* Fixer.autoFix(targetFile, issues) of a Fixer built with cfg and the source
\* file; the files live in the heap h and are named by reference
autoFix(h, cfg, targetFile, issues) ==
  LET clone == cloneDeep(h, targetFile)
      sourceFile == h["source"]
      fixed == FixLoop(sourceFile, cfg, clone.heap[clone.ref], issues, Len(issues))
      ordered ==
        CASE cfg.preferOrder = "mirror-source" -> reorderToMatchSource(sourceFile, fixed.file)
          [] cfg.preferOrder = "alphabetical" -> reorderAlphabetically(fixed.file)
          [] OTHER -> fixed.file
  IN  [heap |-> [clone.heap EXCEPT ![clone.ref] = ordered],
       fixedFile |-> clone.ref,
       appliedFixes |-> fixed.appliedFixes]

----------------------------------------------------------------------------
(* The run: load, validate, auto-fix (runCLI), or validate on command (TUI) *)

VARIABLES
  pc,           \* "loaded", "validated" (runCLI), "tui" (launchTUI), "fixed"
  heap,         \* the locale files, by reference: "source", "target", "copy"
  reports,      \* the LocaleReport of the target: issues and stats
  validations,  \* calls of Validator.validate so far
  config,       \* the configuration of the Fixer
  fixedFile,    \* autoFix's fixedFile, a reference into heap
  appliedFixes, \* autoFix's appliedFixes
  strPc,        \* fix generators on one value: "idle", "input", or the fix made
  strSource,    \* the source value of the key
  strTarget,    \* the target value of the key
  strIssues,    \* the issues the Validator raised for the key
  strFix,       \* the Fix generated for strIssues[1]
  diffPc,       \* generatePatches: "idle", "input", "done"
  originalFiles, \* Map locale -> LocaleFile before the fixes
  modifiedFiles, \* Map locale -> LocaleFile after the fixes
  patches,      \* the Patch list generatePatches returns
  ioPc,         \* parse and write: "idle", "input", "parsed", "written", "reparsed"
  ioConfig,     \* the configuration of the UniversalParser
  ioDocument,   \* the document read from disk
  ioFile,       \* parseFile of the document
  ioContent,    \* the document writeFile puts on disk
  ioReparsed,   \* parseFile of the written document
  cliPc,        \* an invocation: "idle", "start", "loading", ..., "exited"
  cliCommand,   \* the command line: "scan", "scan-no-tui", "fix", "translate", "bare"
  cliConfig,    \* the configuration in force
  discovered,   \* the documents discoverFiles found, in path order
  allLocaleFiles, \* the locales of the files parsed so far
  cliError,     \* the last error thrown
  cliReported,  \* the error shown to the user on exit
  cliReports,   \* the locales validate made a report for
  cliSteps,     \* the steps executed: "validate", "autoFix", "translate", ...
  trPc,         \* translateMissing: "idle", "running", "done"
  trLocale,     \* targetLocale
  trKeys,       \* keysToTranslate
  trOutcomes,   \* what the model call did for each chunk sent so far
  translations, \* the Translation list built so far
  updPc,        \* the updater in an invocation: "idle", "start", "loaded", ...
  updCommand,   \* the command line
  updConfig,    \* the loaded configuration (autoUpdate)
  updAvailable, \* notifier.update: "none", or the type of the update
  autoUpdateEnabled, \* the field of the ZLocalzUpdater in use
  installs,     \* the npm install processes started
  notified,     \* displayUpdateNotification was called
  tuiPc,        \* launchTUI: "idle", "constructed", "initialized", "rendered"
  tuiTargets,   \* the locales of targetFiles
  isLoading,    \* AppState.isLoading
  unsavedChanges, \* AppState.unsavedChanges
  tuiFilter,    \* AppState.filter
  listeners,    \* the events of the app that have a listener
  emitted,      \* the events the app has emitted
  saves,        \* the number of times save() passed its guard
  written,      \* the locales whose document was written by writeFile
  tabPc,        \* a run over a tabular file: "idle", "start", "loaded", ...
  tabConfig,    \* the configuration (preferOrder)
  tabDocument,  \* the records of the CSV file at the path
  tabLoaded,    \* the LocaleFile of every locale as loadLocaleFiles built it
  tabTargets,   \* targetFiles: the LocaleFile of every target locale
  tabReports,   \* the issues validate reported for every target locale
  tabFixes,     \* the fixes autoFix applied for every target locale
  tabWrites,    \* the number of target files written
  discPc,       \* discoverFiles: "idle", "start", "done"
  discConfig,   \* the configuration (fileFormat, filePattern)
  discDir,      \* the paths of the files under basePath
  discFiles,    \* the list discoverFiles returned
  limPc,        \* translateMissing: "idle", "loop", "awaiting", "done"
  limKeys,      \* keysToTranslate
  limIssued,    \* the number of chunks handed to this.limit so far
  limQueue,     \* the chunks waiting in the queue of p-limit
  inFlight,     \* the chunks whose translateChunk call is running
  limSettled,   \* the chunks whose promise has settled
  limFailed,    \* the chunks whose model call threw
  seenTargets   \* the target files earlier runs of a series started from

runVars == <<pc, heap, reports, validations, config, fixedFile, appliedFixes>>
strVars == <<strPc, strSource, strTarget, strIssues, strFix>>
diffVars == <<diffPc, originalFiles, modifiedFiles, patches>>
ioVars == <<ioPc, ioConfig, ioDocument, ioFile, ioContent, ioReparsed>>
cliVars == <<cliPc, cliCommand, cliConfig, discovered, allLocaleFiles, cliError,
             cliReported, cliReports, cliSteps>>
trVars == <<trPc, trLocale, trKeys, trOutcomes, translations>>
updVars == <<updPc, updCommand, updConfig, updAvailable, autoUpdateEnabled,
             installs, notified>>
tuiVars == <<tuiPc, tuiTargets, isLoading, unsavedChanges, tuiFilter,
             listeners, emitted, saves, written>>
tabVars == <<tabPc, tabConfig, tabDocument, tabLoaded, tabTargets, tabReports,
             tabFixes, tabWrites>>
discVars == <<discPc, discConfig, discDir, discFiles>>
limVars == <<limPc, limKeys, limIssued, limQueue, inFlight, limSettled, limFailed>>
loopVars == <<seenTargets>>
vars == <<runVars, strVars, diffVars, ioVars, cliVars, trVars, updVars, tuiVars,
          tabVars, discVars, limVars, loopVars>>

\* what a step of the run, of a fix generator, of the diff leaves alone
offRun == <<strVars, diffVars, ioVars, cliVars, trVars, updVars, tuiVars, tabVars, discVars, limVars, loopVars>>
offStr == <<runVars, diffVars, ioVars, cliVars, trVars, updVars, tuiVars, tabVars, discVars, limVars, loopVars>>
offDiff == <<runVars, strVars, ioVars, cliVars, trVars, updVars, tuiVars, tabVars, discVars, limVars, loopVars>>
offIo == <<runVars, strVars, diffVars, cliVars, trVars, updVars, tuiVars, tabVars, discVars, limVars, loopVars>>
offCli == <<runVars, strVars, diffVars, ioVars, trVars, updVars, tuiVars, tabVars, discVars, limVars, loopVars>>
offTr == <<runVars, strVars, diffVars, ioVars, cliVars, updVars, tuiVars, tabVars, discVars, limVars, loopVars>>
offUpd == <<runVars, strVars, diffVars, ioVars, cliVars, trVars, tuiVars, tabVars, discVars, limVars, loopVars>>
offTui == <<runVars, strVars, diffVars, ioVars, cliVars, trVars, updVars, tabVars, discVars, limVars, loopVars>>
offTab == <<runVars, strVars, diffVars, ioVars, cliVars, trVars, updVars, tuiVars, discVars, limVars, loopVars>>
offDisc == <<runVars, strVars, diffVars, ioVars, cliVars, trVars, updVars, tuiVars, tabVars, limVars, loopVars>>
offLim == <<runVars, strVars, diffVars, ioVars, cliVars, trVars, updVars, tuiVars, tabVars, discVars, loopVars>>
offLoop == <<strVars, diffVars, ioVars, cliVars, trVars, updVars, tuiVars, tabVars, discVars, limVars>>

\* most calls of validate in one session
MaxValidations == 2

Configs ==
  [doAutoFix : BOOLEAN, preferOrder : {"mirror-source", "alphabetical", "none"}]

\* as validate, but with the issue list kept from one call to the next
validate_Accumulating(h) ==
  LET issues == reports.issues \o validateTarget(h["source"], h["target"])
  IN  [issues |-> issues, stats |-> calculateStats(h["source"], issues)]

\* Validator.validate() for the one target file
validate(h) ==
  LET issues == validateTarget(h["source"], h["target"])
  IN  [issues |-> issues, stats |-> calculateStats(h["source"], issues)]

NoFix == [type |-> "none", locale |-> "", key |-> "",
          oldValue |-> Undefined, newValue |-> Undefined]

StrIdle ==
  /\ strPc = "idle"
  /\ strSource = <<>>
  /\ strTarget = <<>>
  /\ strIssues = <<>>
  /\ strFix = NoFix

EmptyFile(loc) == ParsedFile(loc, <<>>, <<>>, NoMetadata)

RunIdle ==
  /\ pc = "idle"
  /\ heap = <<>>
  /\ reports = [issues |-> <<>>, stats |-> calculateStats(EmptyFile("en"), <<>>)]
  /\ validations = 0
  /\ config = [doAutoFix |-> FALSE, preferOrder |-> "none"]
  /\ fixedFile = "none"
  /\ appliedFixes = <<>>

DiffIdle ==
  /\ diffPc = "idle"
  /\ originalFiles = <<>>
  /\ modifiedFiles = <<>>
  /\ patches = <<>>

IoIdle ==
  /\ ioPc = "idle"
  /\ ioConfig = [preferOrder |-> "none"]
  /\ ioDocument = <<>>
  /\ ioFile = <<>>
  /\ ioContent = <<>>
  /\ ioReparsed = <<>>

NoError == [kind |-> "none", locales |-> <<>>]

CliIdle ==
  /\ cliPc = "idle"
  /\ cliCommand = "none"
  /\ cliConfig = <<>>
  /\ discovered = <<>>
  /\ allLocaleFiles = <<>>
  /\ cliError = NoError
  /\ cliReported = NoError
  /\ cliReports = {}
  /\ cliSteps = {}

TrIdle ==
  /\ trPc = "idle"
  /\ trLocale = ""
  /\ trKeys = <<>>
  /\ trOutcomes = <<>>
  /\ translations = <<>>

UpdIdle ==
  /\ updPc = "idle"
  /\ updCommand = "none"
  /\ updConfig = [autoUpdate |-> TRUE]
  /\ updAvailable = "none"
  /\ autoUpdateEnabled = TRUE
  /\ installs = <<>>
  /\ notified = FALSE

NoFilter == "<undefined>"

TuiIdle ==
  /\ tuiPc = "idle"
  /\ tuiTargets = {}
  /\ isLoading = TRUE
  /\ unsavedChanges = FALSE
  /\ tuiFilter = NoFilter
  /\ listeners = {}
  /\ emitted = {}
  /\ saves = 0
  /\ written = {}

TabIdle ==
  /\ tabPc = "idle"
  /\ tabConfig = [preferOrder |-> "none"]
  /\ tabDocument = <<>>
  /\ tabLoaded = <<>>
  /\ tabTargets = <<>>
  /\ tabReports = <<>>
  /\ tabFixes = <<>>
  /\ tabWrites = 0

\* config.filePattern when it is not set
NoPattern == "<undefined>"

DiscIdle ==
  /\ discPc = "idle"
  /\ discConfig = [fileFormat |-> "auto", filePattern |-> NoPattern]
  /\ discDir = {}
  /\ discFiles = <<>>

LimIdle ==
  /\ limPc = "idle"
  /\ limKeys = <<>>
  /\ limIssued = 0
  /\ limQueue = <<>>
  /\ inFlight = {}
  /\ limSettled = {}
  /\ limFailed = {}

LoopIdle == seenTargets = {}

Init ==
  /\ StrIdle
  /\ DiffIdle
  /\ IoIdle
  /\ CliIdle
  /\ TrIdle
  /\ UpdIdle
  /\ TuiIdle
  /\ TabIdle
  /\ DiscIdle
  /\ LimIdle
  /\ LoopIdle
  /\ pc = "loaded"
  /\ \E sourceFile \in FilesOver("en", SourceValues, "source-metadata"),
        targetFile \in FilesOver("es", TargetValues, "target-metadata") :
       heap = [o \in {"source", "target"} |->
                 IF o = "source" THEN sourceFile ELSE targetFile]
  /\ reports = [issues |-> <<>>, stats |-> calculateStats(heap["source"], <<>>)]
  /\ validations = 0
  /\ config = [doAutoFix |-> FALSE, preferOrder |-> "none"]
  /\ fixedFile = "none"
  /\ appliedFixes = <<>>

\* runCLI: new Validator(sourceFile, targets).validate()
Validate ==
  /\ pc = "loaded"
  /\ pc' = "validated"
  /\ reports' = validate(heap)
  /\ validations' = validations + 1
  /\ UNCHANGED <<heap, config, fixedFile, appliedFixes, offRun>>

\* launchTUI: the validation before the first render
LaunchValidate ==
  /\ pc = "loaded"
  /\ pc' = "tui"
  /\ reports' = validate(heap)
  /\ validations' = validations + 1
  /\ UNCHANGED <<heap, config, fixedFile, appliedFixes, offRun>>

\* the TUI's 'validate' command
CommandValidate ==
  /\ pc = "tui"
  /\ validations < MaxValidations
  /\ reports' = validate(heap)
  /\ validations' = validations + 1
  /\ UNCHANGED <<pc, heap, config, fixedFile, appliedFixes, offRun>>

\* new Fixer(cfg, sourceFile).autoFix(targetFile, report.issues)
AutoFix ==
  /\ pc = "validated"
  /\ \E cfg \in Configs :
       LET result == autoFix(heap, cfg, "target", reports.issues)
       IN  /\ config' = cfg
           /\ heap' = result.heap
           /\ fixedFile' = result.fixedFile
           /\ appliedFixes' = result.appliedFixes
  /\ pc' = "fixed"
  /\ UNCHANGED <<reports, validations, offRun>>

Next == Validate \/ LaunchValidate \/ CommandValidate \/ AutoFix

Spec == Init /\ [][Next]_vars

----------------------------------------------------------------------------
(* Runs of zlocalz fix with doAutoFix, one after the other, each on the *)
(* target file the run before it wrote                                  *)

LoopInit ==
  /\ StrIdle
  /\ DiffIdle
  /\ IoIdle
  /\ CliIdle
  /\ TrIdle
  /\ UpdIdle
  /\ TuiIdle
  /\ TabIdle
  /\ DiscIdle
  /\ LimIdle
  /\ pc = "loaded"
  /\ \E sourceFile \in FilesOver("en", SourceValues, "source-metadata"),
        targetFile \in FilesOver("es", TargetValues, "target-metadata") :
       heap = [o \in {"source", "target"} |->
                 IF o = "source" THEN sourceFile ELSE targetFile]
  /\ reports = [issues |-> <<>>, stats |-> calculateStats(heap["source"], <<>>)]
  /\ validations = 0
  /\ config \in {cfg \in Configs : cfg.doAutoFix}
  /\ fixedFile = "none"
  /\ appliedFixes = <<>>
  /\ seenTargets = {}

\* the target file a run with doAutoFix leaves: autoFix over the issues of
\* validate, written by the write loop
FixedTarget(h, cfg) ==
  LET result == autoFix(h, cfg, "target", validate(h).issues)
  IN  result.heap[result.fixedFile]

\* a run: new Validator(sourceFile, targets).validate()
RoundValidate ==
  /\ pc = "loaded"
  /\ pc' = "validated"
  /\ reports' = validate(heap)
  /\ validations' = 1
  /\ seenTargets' = seenTargets \cup {heap["target"]}
  /\ UNCHANGED <<heap, config, fixedFile, appliedFixes, offLoop>>

\* the run goes on: autoFix, targetFiles.set(locale, fixedFile), the write
\* loop; the next run loads the file written
RoundAutoFix ==
  /\ pc = "validated"
  /\ LET result == autoFix(heap, config, "target", reports.issues)
     IN  /\ heap' = [heap EXCEPT !["target"] = result.heap[result.fixedFile]]
         /\ appliedFixes' = result.appliedFixes
  /\ pc' = "loaded"
  /\ UNCHANGED <<reports, validations, config, fixedFile, seenTargets, offLoop>>

LoopNext == RoundValidate \/ RoundAutoFix

SpecLoop == LoopInit /\ [][LoopNext]_vars

----------------------------------------------------------------------------
(* The fix generators on one key, over every bounded source and target value *)

Segments ==
  {<<"x">>, <<" ">>, <<"{", "a", "}">>, <<"{", "b", "}">>, <<"{", "c", "}">>,
   <<"{">>, <<"}">>}

RECURSIVE Concat(_)
Concat(segs) == IF segs = <<>> THEN <<>> ELSE Head(segs) \o Concat(Tail(segs))

Strings == {Concat(segs) : segs \in UNION {[1..n -> Segments] : n \in 0..MaxSegments}}

\* a file holding the one key "a" with the given value
OneKeyFile(loc, value) ==
  ParsedFile(loc, <<"a">>, [k \in {"a"} |-> value], NoMetadata)

StrInit ==
  /\ RunIdle
  /\ DiffIdle
  /\ IoIdle
  /\ CliIdle
  /\ TrIdle
  /\ UpdIdle
  /\ TuiIdle
  /\ TabIdle
  /\ DiscIdle
  /\ LimIdle
  /\ LoopIdle
  /\ strPc = "input"
  /\ strSource \in Strings
  /\ strTarget \in Strings
  /\ strIssues = <<>>
  /\ strFix = NoFix

\* the key is missing in the target: checkMissingKeys, generateMissingKeyFix
MissingKeyFix ==
  /\ strPc = "input"
  /\ LET sourceFile == OneKeyFile("en", strSource)
          issues == checkMissingKeys(sourceFile, EmptyFile("es"))
     IN  /\ strIssues' = issues
         /\ strFix' = generateFix(sourceFile, issues[1], EmptyFile("es"))
  /\ strPc' = "addMissing"
  /\ UNCHANGED <<strSource, strTarget, offStr>>

\* the key is in both files: checkPlaceholders, generatePlaceholderFix
PlaceholderFix ==
  /\ strPc = "input"
  /\ LET sourceFile == OneKeyFile("en", strSource)
          targetFile == OneKeyFile("es", strTarget)
          issues == checkPlaceholders(sourceFile, targetFile)
     IN  /\ issues # <<>>
         /\ strIssues' = issues
         /\ strFix' = generateFix(sourceFile, issues[1], targetFile)
  /\ strPc' = "fixPlaceholder"
  /\ UNCHANGED <<strSource, strTarget, offStr>>

\* the key is in both files: checkPlaceholders alone
CheckPlaceholders ==
  /\ strPc = "input"
  /\ strIssues' = checkPlaceholders(OneKeyFile("en", strSource), OneKeyFile("es", strTarget))
  /\ strPc' = "checked"
  /\ UNCHANGED <<strSource, strTarget, strFix, offStr>>

StrNext == MissingKeyFix \/ PlaceholderFix \/ CheckPlaceholders

SpecStr == StrInit /\ [][StrNext]_vars

----------------------------------------------------------------------------
(* DiffGenerator: the patches between the files before and after the fixes *)

\* a property of the object serializeARB hands to JSON.stringify
Prop(name, value) == [name |-> name, value |-> value]

\* a property whose name is a canonical array index
IsIndexProp(p) == p.name[1] = "value" /\ p.name[2] \in IndexKeys

\* output[name] = value: a new property takes its place in property order
RECURSIVE InsertProp(_, _)
InsertProp(props, p) ==
  IF \E i \in 1..Len(props) : props[i].name = p.name
  THEN [i \in 1..Len(props) |-> IF props[i].name = p.name THEN p ELSE props[i]]
  ELSE IF ~IsIndexProp(p) THEN Append(props, p)
  ELSE IF props = <<>> THEN <<p>>
  ELSE IF IsIndexProp(Head(props))
            /\ IndexValue(Head(props).name[2]) < IndexValue(p.name[2])
       THEN <<Head(props)>> \o InsertProp(Tail(props), p)
       ELSE <<p>> \o props

\* the loop of serializeARB over the sorted keys
RECURSIVE SerializeEntries(_, _, _)
SerializeEntries(file, keys, output) ==
  IF keys = <<>> THEN output
  ELSE LET key == Head(keys)
           entry == file.entries[key]
           withValue == InsertProp(output, Prop(RawValue(key), entry.value))
           withMeta ==
             IF entry.metadata # NoMetadata
             THEN InsertProp(withValue, Prop(RawMeta(key), <<entry.metadata>>))
             ELSE withValue
       IN  SerializeEntries(file, Tail(keys), withMeta)

\* the text of the file: the properties of output in the order JSON.stringify
\* writes them
serializeARB(file) ==
  LET output == IF RawLocale \in file.raw
                THEN <<Prop(RawLocale, <<file.locale>>)>>
                ELSE <<>>
  IN  SerializeEntries(file, SortKeys(Range(file.keys)), output)

\* as hasChanges, but comparing the entries in the order the files hold them
hasChanges_KeyOrder(originalFile, modifiedFile) ==
  \/ serializeARB(originalFile) # serializeARB(modifiedFile)
  \/ originalFile.keys # modifiedFile.keys

hasChanges(originalFile, modifiedFile) ==
  serializeARB(originalFile) # serializeARB(modifiedFile)

\* the path of a locale's file
PathOf(file) == <<"l10n", file.locale>>

\* the Patch of two files; the unified diff is kept as the two texts it is
\* computed from
generatePatch(originalFile, modifiedFile) ==
  [path |-> PathOf(modifiedFile),
   diff |-> <<serializeARB(originalFile), serializeARB(modifiedFile)>>,
   format |-> "unified"]

\* a Map<string, LocaleFile>: its entries in insertion order
MapHas(map, locale) == \E i \in 1..Len(map) : map[i].locale = locale

MapGet(map, locale) ==
  LET i == CHOOSE i \in 1..Len(map) : map[i].locale = locale
  IN  map[i].file

\* as generatePatches, but with a patch for every locale of both maps
RECURSIVE generatePatches_Always(_, _)
generatePatches_Always(originals, modifieds) ==
  IF modifieds = <<>> THEN <<>>
  ELSE LET locale == Head(modifieds).locale
           modifiedFile == Head(modifieds).file
           rest == generatePatches_Always(originals, Tail(modifieds))
       IN  IF ~MapHas(originals, locale) THEN rest
           ELSE <<generatePatch(MapGet(originals, locale), modifiedFile)>> \o rest

RECURSIVE generatePatches(_, _)
generatePatches(originals, modifieds) ==
  IF modifieds = <<>> THEN <<>>
  ELSE LET locale == Head(modifieds).locale
           modifiedFile == Head(modifieds).file
           rest == generatePatches(originals, Tail(modifieds))
       IN  IF ~MapHas(originals, locale) THEN rest
           ELSE IF hasChanges(MapGet(originals, locale), modifiedFile)
           THEN <<generatePatch(MapGet(originals, locale), modifiedFile)>> \o rest
           ELSE rest

\* the files of one locale the diff is taken over: with and without metadata
\* on their keys, with and without the "@@locale" marker
DiffFiles(loc) ==
  LET parsed == FilesOver(loc, {sOK, TODO}, "metadata")
      plain == {[f EXCEPT !.entries = [k \in DOMAIN f.entries |->
                                          [f.entries[k] EXCEPT !.metadata = NoMetadata]],
                          !.raw = {x \in f.raw : x[1] # "@"}] : f \in parsed}
      all == parsed \cup plain
  IN  all \cup {[f EXCEPT !.raw = f.raw \ {RawLocale}] : f \in all}

MapEntry(file) == [locale |-> file.locale, file |-> file]

\* a second locale: in either map or not, changed by the fixes or not
OtherLocale == [inOriginal : BOOLEAN, inModified : BOOLEAN, changed : BOOLEAN]

OtherOriginal == OneKeyFile("fr", sOK)

OtherModified(other) ==
  IF other.changed THEN OneKeyFile("fr", TODO) ELSE OtherOriginal

DiffInit ==
  /\ RunIdle
  /\ StrIdle
  /\ IoIdle
  /\ CliIdle
  /\ TrIdle
  /\ UpdIdle
  /\ TuiIdle
  /\ TabIdle
  /\ DiscIdle
  /\ LimIdle
  /\ LoopIdle
  /\ diffPc = "input"
  /\ \E original \in DiffFiles("es"), modified \in DiffFiles("es"),
        other \in OtherLocale :
       /\ originalFiles =
            <<MapEntry(original)>>
              \o (IF other.inOriginal THEN <<MapEntry(OtherOriginal)>> ELSE <<>>)
       /\ modifiedFiles =
            <<MapEntry(modified)>>
              \o (IF other.inModified THEN <<MapEntry(OtherModified(other))>> ELSE <<>>)
  /\ patches = <<>>

\* DiffGenerator.generatePatches(originalFiles, modifiedFiles)
GeneratePatches ==
  /\ diffPc = "input"
  /\ patches' = generatePatches(originalFiles, modifiedFiles)
  /\ diffPc' = "done"
  /\ UNCHANGED <<originalFiles, modifiedFiles, offDiff>>

DiffNext == GeneratePatches

SpecDiff == DiffInit /\ [][DiffNext]_vars

----------------------------------------------------------------------------
(* UniversalParser: parseFile and writeFile, per format *)

Formats == {"arb", "json", "yaml", "csv", "tsv"}

\* a scalar of a parsed JSON or YAML document
RawString(text) == [type |-> "string", text |-> text]
RawNumber(text) == [type |-> "number", text |-> text]

\* String(value)
String(raw) == raw.text

\* an "@key" object of an ARB document, or its absence
NoObject == [present |-> FALSE, description |-> Undefined, placeholders |-> Undefined]

MetadataObject(description, placeholders) ==
  [present |-> TRUE, description |-> description, placeholders |-> placeholders]

\* entry.tags when absent
NoTags == <<Undefined>>

LocaleEntry(key, value, metadata, description, placeholders, context, tags) ==
  [key |-> key, value |-> value, metadata |-> metadata,
   description |-> description, placeholders |-> placeholders,
   context |-> context, tags |-> tags]

\* parseJsonEntries(raw), for ARB and JSON documents
parseJsonEntries(raw) ==
  [keys |-> raw.keys,
   entries |-> [k \in Range(raw.keys) |->
                  LocaleEntry(k, String(raw.value[k]), raw.meta[k],
                              raw.meta[k].description, raw.meta[k].placeholders,
                              Undefined, NoTags)]]

\* a node of a YAML document: a scalar, or a mapping that has a "value"
YamlScalar(value) ==
  [kind |-> "scalar", value |-> value, description |-> Undefined,
   context |-> Undefined, tags |-> NoTags]

YamlEntry(value, description, context, tags) ==
  [kind |-> "entry", value |-> value, description |-> description,
   context |-> context, tags |-> tags]

\* parseYamlEntries(raw, locale), for documents without nested mappings
parseYamlEntries(raw) ==
  [keys |-> raw.keys,
   entries |-> [k \in Range(raw.keys) |->
                  LET node == raw.node[k]
                  IN  IF node.kind = "entry"
                      THEN LocaleEntry(k, String(node.value),
                                       MetadataObject(node.description, Undefined),
                                       node.description, Undefined,
                                       node.context, node.tags)
                      ELSE LocaleEntry(k, String(node.value), NoObject,
                                       Undefined, Undefined, Undefined, NoTags)]]

\* cell.split(',')
RECURSIVE SplitOnComma(_)
SplitOnComma(cell) ==
  IF \E i \in 1..Len(cell) : cell[i] = ","
  THEN LET i == CHOOSE i \in 1..Len(cell) :
                  cell[i] = "," /\ \A j \in 1..(i - 1) : cell[j] # ","
       IN  <<SubSeq(cell, 1, i - 1)>> \o SplitOnComma(SubSeq(cell, i + 1, Len(cell)))
  ELSE <<cell>>

\* record.tags.split(',').map(t => t.trim())
SplitTags(cell) ==
  LET parts == SplitOnComma(cell)
  IN  [i \in 1..Len(parts) |-> Trim(parts[i])]

\* entry.tags.join(', ')
RECURSIVE JoinTags(_)
JoinTags(tags) ==
  IF tags = <<>> THEN <<>>
  ELSE IF Len(tags) = 1 THEN tags[1]
  ELSE tags[1] \o <<",", " ">> \o JoinTags(Tail(tags))

\* a record of a CSV document; a field of a column the header lacks is
\* undefined, an empty cell is the empty string
CsvRecord(key, value, description, context, tags) ==
  [key |-> key, value |-> value, description |-> description,
   context |-> context, tags |-> tags]

\* parseCsvEntries(records, locale) over the first n records
RECURSIVE parseCsvEntries(_, _)
parseCsvEntries(records, n) ==
  IF n = 0 THEN [keys |-> <<>>, entries |-> <<>>]
  ELSE LET prev == parseCsvEntries(records, n - 1)
           record == records[n]
           entry == LocaleEntry(record.key, record.value,
                                MetadataObject(record.description, Undefined),
                                record.description, Undefined, record.context,
                                IF ~Falsy(record.tags) THEN SplitTags(record.tags)
                                ELSE NoTags)
       IN  IF record.key # "" /\ ~Falsy(record.value)
           THEN [keys |-> InsertKey(prev.keys, record.key),
                 entries |-> [k \in DOMAIN prev.entries \cup {record.key} |->
                                IF k = record.key THEN entry ELSE prev.entries[k]]]
           ELSE prev

\* the locale extractLocale reads from the path of the document
DocumentLocale == "es"

\* UniversalParser.parseFile(filePath) of the document at the path
parseFile(document) ==
  LET parsed ==
        CASE document.format \in {"arb", "json"} -> parseJsonEntries(document)
          [] document.format = "yaml" -> parseYamlEntries(document)
          [] document.format \in {"csv", "tsv"} ->
               parseCsvEntries(document.records, Len(document.records))
  IN  [locale |-> DocumentLocale,
       format |-> document.format,
       keys |-> parsed.keys,
       entries |-> parsed.entries,
       raw |-> document]

\* the "@key" object generateJsonContent builds for an entry
JsonMetadataOf(entry) ==
  LET description ==
        IF entry.metadata.present /\ entry.metadata.description # Undefined
        THEN entry.metadata.description
        ELSE IF ~Falsy(entry.description) THEN entry.description ELSE Undefined
      placeholders ==
        IF entry.metadata.present /\ entry.metadata.placeholders # Undefined
        THEN entry.metadata.placeholders
        ELSE IF ~Falsy(entry.placeholders) THEN entry.placeholders ELSE Undefined
  IN  IF description # Undefined \/ placeholders # Undefined
      THEN MetadataObject(description, placeholders)
      ELSE NoObject

\* the document generateJsonContent serializes
generateJsonContent(cfg, localeFile) ==
  LET keys == ObjectOf(IF cfg.preferOrder = "alphabetical"
                       THEN SortKeys(Range(localeFile.keys))
                       ELSE localeFile.keys)
  IN  [format |-> localeFile.format,
       marker |-> IF localeFile.format = "arb" /\ ~Falsy(localeFile.raw.marker)
                  THEN localeFile.raw.marker ELSE Undefined,
       keys |-> keys,
       value |-> [k \in Range(keys) |-> RawString(localeFile.entries[k].value)],
       meta |-> [k \in Range(keys) |->
                   LET entry == localeFile.entries[k]
                   IN  IF localeFile.format = "arb"
                            /\ (entry.metadata.present \/ ~Falsy(entry.description)
                                  \/ ~Falsy(entry.placeholders))
                       THEN JsonMetadataOf(entry)
                       ELSE NoObject]]

\* the document generateYamlContent serializes, for keys without a dot
generateYamlContent(localeFile) ==
  [format |-> localeFile.format,
   keys |-> ObjectOf(localeFile.keys),
   node |-> [k \in Range(localeFile.keys) |->
               LET entry == localeFile.entries[k]
               IN  IF ~Falsy(entry.description) \/ ~Falsy(entry.context)
                        \/ entry.tags # NoTags \/ entry.metadata.present
                   THEN YamlEntry(RawString(entry.value),
                                  IF ~Falsy(entry.description)
                                  THEN entry.description ELSE Undefined,
                                  IF ~Falsy(entry.context)
                                  THEN entry.context ELSE Undefined,
                                  entry.tags)
                   ELSE YamlScalar(RawString(entry.value))]]

\* the record generateCsvContent makes of an entry: a field that is not set
\* is undefined
CsvRecordOf(entry) ==
  CsvRecord(entry.key, entry.value,
            IF ~Falsy(entry.description) THEN entry.description ELSE Undefined,
            IF ~Falsy(entry.context) THEN entry.context ELSE Undefined,
            IF entry.tags # NoTags THEN JoinTags(entry.tags) ELSE Undefined)

\* csvStringify(records, {header: true}) read back by csvParse: the columns
\* are those of the first record, and a field a record lacks is an empty cell
csvStringify(records) ==
  LET Cell(present, field) ==
        IF ~present THEN Undefined ELSE IF field = Undefined THEN <<>> ELSE field
      first == records[1]
  IN  [i \in 1..Len(records) |->
         CsvRecord(records[i].key, records[i].value,
                   Cell(first.description # Undefined, records[i].description),
                   Cell(first.context # Undefined, records[i].context),
                   Cell(first.tags # Undefined, records[i].tags))]

\* the document generateCsvContent serializes
generateCsvContent(localeFile) ==
  LET records == [i \in 1..Len(localeFile.keys) |->
                    CsvRecordOf(localeFile.entries[localeFile.keys[i]])]
  IN  [format |-> localeFile.format,
       records |-> IF records = <<>> THEN <<>> ELSE csvStringify(records)]

\* UniversalParser.writeFile(localeFile): the document left at localeFile.path
writeFile(cfg, localeFile) ==
  CASE localeFile.format \in {"arb", "json"} -> generateJsonContent(cfg, localeFile)
    [] localeFile.format = "yaml" -> generateYamlContent(localeFile)
    [] localeFile.format \in {"csv", "tsv"} -> generateCsvContent(localeFile)

----------------------------------------------------------------------------
(* Parse, write and parse again, over every bounded well-formed document *)

sDescription == <<"description">>
sPlaceholders == <<"placeholders">>
sContext == <<"context">>
sFive == <<"5">>
sTagCell == <<"x", ",", " ", "y">>

JsonDocuments(format) ==
  UNION {[format : {format},
          marker : {Undefined, <<DocumentLocale>>},
          keys : {ks},
          value : [Range(ks) -> {RawString(sHi), RawNumber(sFive)}],
          meta : [Range(ks) -> {NoObject,
                                MetadataObject(Undefined, Undefined),
                                MetadataObject(sDescription, Undefined),
                                MetadataObject(sDescription, sPlaceholders)}]] :
           ks \in KeyOrders}

YamlNodes ==
  {YamlScalar(RawString(sHi)), YamlScalar(RawNumber(sFive))}
    \cup {YamlEntry(RawString(sHi), description, context, tags) :
            description \in {Undefined, sDescription},
            context \in {Undefined, sContext},
            tags \in {NoTags, <<>>, <<<<"x">>>>}}

YamlDocuments ==
  UNION {[format : {"yaml"}, keys : {ks}, node : [Range(ks) -> YamlNodes]] :
           ks \in KeyOrders}

\* the rows of a CSV document, in any order
RowOrders ==
  {ks \in UNION {[1..n -> Keys] : n \in 0..MaxKeys} :
     \A i \in 1..Len(ks), j \in 1..Len(ks) : i # j => ks[i] # ks[j]}

\* the cells of a column: empty or filled, or undefined without the column
Cells(present, filled) == IF present THEN {<<>>, filled} ELSE {Undefined}

CsvDocuments(format) ==
  UNION {[format : {format},
          records : {records \in [1..Len(ks) ->
                                    [key : Range(ks), value : {sHi},
                                     description : Cells(columns.description, sDescription),
                                     context : Cells(columns.context, sContext),
                                     tags : Cells(columns.tags, sTagCell)]] :
                       \A i \in 1..Len(ks) : records[i].key = ks[i]}] :
           ks \in RowOrders,
           columns \in [description : BOOLEAN, context : BOOLEAN, tags : BOOLEAN]}

Documents ==
  JsonDocuments("arb") \cup JsonDocuments("json") \cup YamlDocuments
    \cup CsvDocuments("csv") \cup CsvDocuments("tsv")

IoInit ==
  /\ RunIdle
  /\ StrIdle
  /\ DiffIdle
  /\ CliIdle
  /\ TrIdle
  /\ UpdIdle
  /\ TuiIdle
  /\ TabIdle
  /\ DiscIdle
  /\ LimIdle
  /\ LoopIdle
  /\ ioPc = "input"
  /\ ioConfig \in [preferOrder : {"none", "alphabetical"}]
  /\ ioDocument \in Documents
  /\ ioFile = <<>>
  /\ ioContent = <<>>
  /\ ioReparsed = <<>>

\* parser.parseFile(path)
ParseFile ==
  /\ ioPc = "input"
  /\ ioFile' = parseFile(ioDocument)
  /\ ioPc' = "parsed"
  /\ UNCHANGED <<ioConfig, ioDocument, ioContent, ioReparsed, offIo>>

\* parser.writeFile(localeFile)
WriteFile ==
  /\ ioPc = "parsed"
  /\ ioContent' = writeFile(ioConfig, ioFile)
  /\ ioPc' = "written"
  /\ UNCHANGED <<ioConfig, ioDocument, ioFile, ioReparsed, offIo>>

\* parser.parseFile(path) of the file just written
ParseWritten ==
  /\ ioPc = "written"
  /\ ioReparsed' = parseFile(ioContent)
  /\ ioPc' = "reparsed"
  /\ UNCHANGED <<ioConfig, ioDocument, ioFile, ioContent, offIo>>

IoNext == ParseFile \/ WriteFile \/ ParseWritten

SpecIo == IoInit /\ [][IoNext]_vars

----------------------------------------------------------------------------
(* An invocation of the tool: load the locale files, validate, fix, *)
(* translate, report, write (cli.ts)                                 *)

Locales == {"en", "es", "fr"}

\* the locales in the order of their documents' paths (discoverFiles sorts)
LocaleOrder == <<"en", "es", "fr">>

\* the documents found under flutterLocalesPath: per locale none, a
\* well-formed one, or a malformed one
Discovered(state) ==
  LET Present(l) == state[l] # "absent"
      found == SelectSeq(LocaleOrder, Present)
  IN  [i \in 1..Len(found) |->
         [locale |-> found[i], malformed |-> state[found[i]] = "malformed"]]

Commands == {"scan", "scan-no-tui", "fix", "translate", "bare"}

\* loadConfig(options): the fix command sets doAutoFix, the translate command
\* translateMissing
CliConfigs(command) ==
  {c \in [sourceLocale : {"en"}, targetLocales : {{"es", "fr"}},
          doAutoFix : BOOLEAN, translateMissing : BOOLEAN, geminiApiKey : BOOLEAN] :
     /\ command = "fix" => c.doAutoFix
     /\ command = "translate" => c.translateMissing}

CliInit ==
  /\ RunIdle
  /\ StrIdle
  /\ DiffIdle
  /\ IoIdle
  /\ TrIdle
  /\ UpdIdle
  /\ TuiIdle
  /\ TabIdle
  /\ DiscIdle
  /\ LimIdle
  /\ LoopIdle
  /\ cliPc = "start"
  /\ cliCommand \in Commands
  /\ cliConfig \in CliConfigs(cliCommand)
  /\ \E state \in [Locales -> {"absent", "wellFormed", "malformed"}] :
       discovered = Discovered(state)
  /\ allLocaleFiles = <<>>
  /\ cliError = NoError
  /\ cliReported = NoError
  /\ cliReports = {}
  /\ cliSteps = {}

\* an error thrown inside launchTUI or runCLI
Throw(error) ==
  /\ cliPc' = "thrown"
  /\ cliError' = error

\* the invocation ends in the TUI rather than in runCLI
IsTui == cliCommand \in {"scan", "bare", "wizard"}

\* loadLocaleFiles: parser.discoverFiles(config.flutterLocalesPath)
DiscoverFiles ==
  /\ cliPc = "start"
  /\ IF discovered = <<>>
     THEN Throw([kind |-> "NoFiles", locales |-> <<>>])
     ELSE cliPc' = "loading" /\ UNCHANGED cliError
  /\ UNCHANGED <<cliCommand, cliConfig, discovered, allLocaleFiles, cliReported,
                 cliReports, cliSteps, offCli>>

\* loadLocaleFiles: one turn of the loop over the discovered files; JSON.parse
\* or YAML.parse inside parseFile throws on a malformed document
ParseNextFile ==
  /\ cliPc = "loading"
  /\ Len(allLocaleFiles) < Len(discovered)
  /\ LET file == discovered[Len(allLocaleFiles) + 1]
     IN  IF file.malformed
         THEN Throw([kind |-> "ParseError", locales |-> <<>>])
                /\ UNCHANGED allLocaleFiles
         ELSE /\ allLocaleFiles' = Append(allLocaleFiles, file.locale)
              /\ UNCHANGED <<cliPc, cliError>>
  /\ UNCHANGED <<cliCommand, cliConfig, discovered, cliReported, cliReports,
                 cliSteps, offCli>>

\* loadLocaleFiles: find the source file, collect the target files
SelectFiles ==
  /\ cliPc = "loading"
  /\ Len(allLocaleFiles) = Len(discovered)
  /\ IF cliConfig.sourceLocale \notin Range(allLocaleFiles)
     THEN Throw([kind |-> "SourceNotFound", locales |-> allLocaleFiles])
     ELSE cliPc' = "loaded" /\ UNCHANGED cliError
  /\ UNCHANGED <<cliCommand, cliConfig, discovered, allLocaleFiles, cliReported,
                 cliReports, cliSteps, offCli>>

\* the target files loadLocaleFiles returns
TargetLocales == Range(allLocaleFiles) \cap cliConfig.targetLocales

\* new Validator(sourceFile, targets).validate(), in launchTUI and in runCLI
ValidateTargets ==
  /\ cliPc = "loaded"
  /\ cliReports' = TargetLocales
  /\ cliSteps' = cliSteps \cup {"validate"}
  /\ cliPc' = IF IsTui THEN "tui" ELSE "validated"
  /\ UNCHANGED <<cliCommand, cliConfig, discovered, allLocaleFiles, cliError,
                 cliReported, offCli>>

\* runCLI: the auto-fix block
AutoFixTargets ==
  /\ cliPc = "validated"
  /\ cliSteps' = IF cliConfig.doAutoFix THEN cliSteps \cup {"autoFix"} ELSE cliSteps
  /\ cliPc' = "fixed"
  /\ UNCHANGED <<cliCommand, cliConfig, discovered, allLocaleFiles, cliError,
                 cliReported, cliReports, offCli>>

\* runCLI: the translation block; the Translator is called for a locale whose
\* report has missing keys
TranslateTargets ==
  /\ cliPc = "fixed"
  /\ \E missingKeys \in BOOLEAN :
       cliSteps' = IF cliConfig.translateMissing /\ cliConfig.geminiApiKey
                       /\ missingKeys /\ TargetLocales # {}
                    THEN cliSteps \cup {"translate"} ELSE cliSteps
  /\ cliPc' = "translated"
  /\ UNCHANGED <<cliCommand, cliConfig, discovered, allLocaleFiles, cliError,
                 cliReported, cliReports, offCli>>

\* runCLI: ReportGenerator.generateReport and fs.writeFile('zlocalz-report.json')
WriteReport ==
  /\ cliPc = "translated"
  /\ cliSteps' = cliSteps \cup {"writeReport"}
  /\ cliPc' = "reported"
  /\ UNCHANGED <<cliCommand, cliConfig, discovered, allLocaleFiles, cliError,
                 cliReported, cliReports, offCli>>

\* runCLI: parser.writeFile(file) for the target files
WriteFiles ==
  /\ cliPc = "reported"
  /\ cliSteps' = IF (cliConfig.doAutoFix \/ "translate" \in cliSteps)
                      /\ TargetLocales # {}
                 THEN cliSteps \cup {"writeFile"} ELSE cliSteps
  /\ cliPc' = "done"
  /\ UNCHANGED <<cliCommand, cliConfig, discovered, allLocaleFiles, cliError,
                 cliReported, cliReports, offCli>>

\* the catch of the command's action: console.error(error), process.exit(1);
\* for the bare command the catch of checkForConfigAndRun, which starts the
\* setup wizard
CatchError ==
  /\ cliPc = "thrown"
  /\ IF cliCommand = "bare"
     THEN cliPc' = "wizard" /\ UNCHANGED cliReported
     ELSE cliPc' = "exited" /\ cliReported' = cliError
  /\ UNCHANGED <<cliCommand, cliConfig, discovered, allLocaleFiles, cliError,
                 cliReports, cliSteps, offCli>>

\* runSetupWizard: wizard.run() makes a new configuration, then launchTUI
RunSetupWizard ==
  /\ cliPc = "wizard"
  /\ \E sourceLocale \in Locales :
       cliConfig' = [cliConfig EXCEPT !.sourceLocale = sourceLocale,
                                      !.targetLocales = Locales \ {sourceLocale}]
  /\ cliCommand' = "wizard"
  /\ allLocaleFiles' = <<>>
  /\ cliPc' = "start"
  /\ UNCHANGED <<discovered, cliError, cliReported, cliReports, cliSteps, offCli>>

CliNext ==
  \/ DiscoverFiles
  \/ ParseNextFile
  \/ SelectFiles
  \/ ValidateTargets
  \/ AutoFixTargets
  \/ TranslateTargets
  \/ WriteReport
  \/ WriteFiles
  \/ CatchError
  \/ RunSetupWizard

SpecCli == CliInit /\ [][CliNext]_vars

----------------------------------------------------------------------------
(* Translator: translateMissing, chunk by chunk *)

\* most keys handed to translateMissing
MaxRequested == 12

\* the chunk size translateMissing passes to chunkKeys
ChunkSize == 10

sHolaUser == <<"Hola", " ", "{", "user", "}">>
sHola == <<"Hola">>
sTranslationError == <<"TRANSLATION_ERROR">>

\* the source file of a translation: every requested key has an entry, every
\* second one with a placeholder
TrSourceValue(key) == IF key % 2 = 1 THEN sHiUser ELSE sHi

\* chunkKeys(keys, chunkSize)
RECURSIVE chunkKeys(_, _)
chunkKeys(keys, chunkSize) ==
  IF keys = <<>> THEN <<>>
  ELSE <<SubSeq(keys, 1, Min(chunkSize, Len(keys)))>>
         \o chunkKeys(SubSeq(keys, Min(chunkSize, Len(keys)) + 1, Len(keys)), chunkSize)

\* what the call of the model does for a chunk: it throws, or answers with
\* translations that keep the placeholders, with translations that rename
\* them, or with text parseTranslationResponse finds no JSON in
Outcomes == {"throws", "faithful", "renamed", "noJson"}

\* parsed[key] || '' for the response of the outcome
ParsedValue(outcome, sourceValue) ==
  CASE outcome = "faithful" -> IF sourceValue = sHiUser THEN sHolaUser ELSE sHola
    [] outcome = "renamed" -> IF sourceValue = sHiUser THEN sHolaUsuario ELSE sHola
    [] OTHER -> <<>>

\* validateTranslation(sourceValue, translatedValue).placeholdersPreserved
validateTranslation(sourceValue, translatedValue) ==
  LET sourcePlaceholders == extractPlaceholders(sourceValue)
      translatedPlaceholders == extractPlaceholders(translatedValue)
  IN  /\ Len(sourcePlaceholders) = Len(translatedPlaceholders)
      /\ \A i \in 1..Len(sourcePlaceholders) :
           sourcePlaceholders[i] \in Range(translatedPlaceholders)

Translation(locale, key, sourceValue, translatedValue, placeholdersPreserved) ==
  [locale |-> locale, key |-> key, sourceValue |-> sourceValue,
   translatedValue |-> translatedValue,
   placeholdersPreserved |-> placeholdersPreserved]

\* as translateChunk, but returning nothing for a chunk whose call failed
translateChunk_DropsFailed(targetLocale, keys, outcome) ==
  IF outcome = "throws" THEN <<>>
  ELSE [i \in 1..Len(keys) |->
          LET sourceValue == TrSourceValue(keys[i])
              translatedValue == ParsedValue(outcome, sourceValue)
          IN  Translation(targetLocale, keys[i], sourceValue, translatedValue,
                          validateTranslation(sourceValue, translatedValue))]

\* translateChunk(sourceFile, targetFile, targetLocale, keys)
translateChunk(targetLocale, keys, outcome) ==
  IF outcome = "throws"
  THEN [i \in 1..Len(keys) |->
          Translation(targetLocale, keys[i], TrSourceValue(keys[i]),
                      sTranslationError, FALSE)]
  ELSE [i \in 1..Len(keys) |->
          LET sourceValue == TrSourceValue(keys[i])
              translatedValue == ParsedValue(outcome, sourceValue)
          IN  Translation(targetLocale, keys[i], sourceValue, translatedValue,
                          validateTranslation(sourceValue, translatedValue))]

\* the chunks of the call in progress
TrChunks == chunkKeys(trKeys, ChunkSize)

TrInit ==
  /\ RunIdle
  /\ StrIdle
  /\ DiffIdle
  /\ IoIdle
  /\ CliIdle
  /\ UpdIdle
  /\ TuiIdle
  /\ TabIdle
  /\ DiscIdle
  /\ LimIdle
  /\ LoopIdle
  /\ trPc = "running"
  /\ trLocale \in {"es", "fr"}
  /\ \E n \in 0..MaxRequested : trKeys = [i \in 1..n |-> i]
  /\ trOutcomes = <<>>
  /\ translations = <<>>

\* translateMissing: one turn of the loop over the chunks
TranslateChunk ==
  /\ trPc = "running"
  /\ Len(trOutcomes) < Len(TrChunks)
  /\ \E outcome \in Outcomes :
       /\ trOutcomes' = Append(trOutcomes, outcome)
       /\ translations' =
            translations \o translateChunk(trLocale, TrChunks[Len(trOutcomes) + 1], outcome)
  /\ UNCHANGED <<trPc, trLocale, trKeys, offTr>>

\* translateMissing: return translations
ReturnTranslations ==
  /\ trPc = "running"
  /\ Len(trOutcomes) = Len(TrChunks)
  /\ trPc' = "done"
  /\ UNCHANGED <<trLocale, trKeys, trOutcomes, translations, offTr>>

TrNext == TranslateChunk \/ ReturnTranslations

SpecTr == TrInit /\ [][TrNext]_vars

----------------------------------------------------------------------------
(* Translator: the calls in flight during translateMissing *)

\* most keys handed to translateMissing when counting the calls in flight
MaxBatchKeys == 41

\* the concurrency the constructor gives p-limit
Concurrency == 3

LimChunks == chunkKeys(limKeys, ChunkSize)

\* as Settled, but with the loop going on without awaiting the promise
Settled_NoAwait(chunk, settled) == TRUE

\* await this.limit(...): the loop goes on once the promise of the chunk it
\* handed to the limiter has settled
Settled(chunk, settled) == chunk \in settled

\* p-limit: a job runs at once while fewer than Concurrency jobs run, and
\* waits in the queue otherwise
limit(running, queue, chunk) ==
  IF Cardinality(running) < Concurrency
  THEN [running |-> running \cup {chunk}, queue |-> queue]
  ELSE [running |-> running, queue |-> Append(queue, chunk)]

\* p-limit when a job has settled: the job at the head of the queue runs
next(running, queue, chunk) ==
  IF queue = <<>> THEN [running |-> running \ {chunk}, queue |-> queue]
  ELSE [running |-> (running \ {chunk}) \cup {Head(queue)}, queue |-> Tail(queue)]

LimInit ==
  /\ RunIdle
  /\ StrIdle
  /\ DiffIdle
  /\ IoIdle
  /\ CliIdle
  /\ TrIdle
  /\ UpdIdle
  /\ TuiIdle
  /\ TabIdle
  /\ DiscIdle
  /\ LoopIdle
  /\ limPc = "loop"
  /\ \E n \in 0..MaxBatchKeys : limKeys = [i \in 1..n |-> i]
  /\ limIssued = 0
  /\ limQueue = <<>>
  /\ inFlight = {}
  /\ limSettled = {}
  /\ limFailed = {}

\* the loop: this.limit(() => this.translateChunk(...)) for the next chunk
LimitChunk ==
  /\ limPc = "loop"
  /\ limIssued < Len(LimChunks)
  /\ LET l == limit(inFlight, limQueue, limIssued + 1)
     IN  /\ inFlight' = l.running
         /\ limQueue' = l.queue
  /\ limIssued' = limIssued + 1
  /\ limPc' = "awaiting"
  /\ UNCHANGED <<limKeys, limSettled, limFailed, offLim>>

\* the model call of a running chunk answers or throws; translateChunk
\* returns its translations either way and p-limit starts the next job
ChunkSettles ==
  /\ \E chunk \in inFlight, threw \in BOOLEAN :
       LET n == next(inFlight, limQueue, chunk)
       IN  /\ inFlight' = n.running
           /\ limQueue' = n.queue
           /\ limSettled' = limSettled \cup {chunk}
           /\ limFailed' = IF threw THEN limFailed \cup {chunk} ELSE limFailed
  /\ UNCHANGED <<limPc, limKeys, limIssued, offLim>>

\* the await of the loop is over: translations.push(...chunkTranslations)
LimResume ==
  /\ limPc = "awaiting"
  /\ Settled(limIssued, limSettled)
  /\ limPc' = "loop"
  /\ UNCHANGED <<limKeys, limIssued, limQueue, inFlight, limSettled, limFailed, offLim>>

\* return translations
LimReturn ==
  /\ limPc = "loop"
  /\ limIssued = Len(LimChunks)
  /\ limPc' = "done"
  /\ UNCHANGED <<limKeys, limIssued, limQueue, inFlight, limSettled, limFailed, offLim>>

LimNext ==
  \/ LimitChunk
  \/ ChunkSettles
  \/ LimResume
  \/ LimReturn

\* the model call of a chunk in flight answers or throws in the end, and the
\* event loop runs every continuation that is ready
SpecLim == LimInit /\ [][LimNext]_vars /\ WF_vars(LimNext)

----------------------------------------------------------------------------
(* The updater in an invocation (utils/updater.ts, cli.ts) *)

UpdateTypes == {"patch", "minor", "major"}

\* the updater's effects so far
UpdaterEffects == [installs |-> installs, notified |-> notified]

\* ZLocalzUpdater.performAutoUpdate(silent): spawn npm install -g zlocalz@latest
\* when the notifier holds an update
performAutoUpdate(effects, available, silent) ==
  IF available = "none" THEN effects
  ELSE [effects EXCEPT !.installs = Append(@, [silent |-> silent, type |-> available])]

displayUpdateNotification(effects) == [effects EXCEPT !.notified = TRUE]

performSilentUpdate(effects, available) ==
  IF available = "major" THEN displayUpdateNotification(effects)
  ELSE performAutoUpdate(effects, available, TRUE)

setupAutoUpdate(effects, enabled, available) ==
  IF available # "none"
  THEN IF enabled THEN performSilentUpdate(effects, available)
       ELSE displayUpdateNotification(effects)
  ELSE effects

\* initializeUpdater, called by the constructor and by checkForUpdates
initializeUpdater(effects, enabled, available) ==
  setupAutoUpdate(effects, enabled, available)

UpdCommands == {"bare", "scan", "fix", "translate", "update", "update-check"}

UpdInit ==
  /\ RunIdle
  /\ StrIdle
  /\ DiffIdle
  /\ IoIdle
  /\ CliIdle
  /\ TrIdle
  /\ TuiIdle
  /\ TabIdle
  /\ DiscIdle
  /\ LimIdle
  /\ LoopIdle
  /\ updPc = "start"
  /\ updCommand \in UpdCommands
  /\ updConfig \in [autoUpdate : BOOLEAN]
  /\ updAvailable \in {"none"} \cup UpdateTypes
  /\ autoUpdateEnabled = TRUE
  /\ installs = <<>>
  /\ notified = FALSE

\* the effects of a step on installs and notified
Effects(effects) ==
  /\ installs' = effects.installs
  /\ notified' = effects.notified

\* loading cli.ts: let updater = new ZLocalzUpdater(true)
LoadModule ==
  /\ updPc = "start"
  /\ autoUpdateEnabled' = TRUE
  /\ Effects(initializeUpdater(UpdaterEffects, TRUE, updAvailable))
  /\ updPc' = "loaded"
  /\ UNCHANGED <<updCommand, updConfig, updAvailable, offUpd>>

\* the preAction hook of a command: checkForUpdates unless the command is update
PreAction ==
  /\ updPc = "loaded"
  /\ updCommand # "bare"
  /\ IF updCommand \notin {"update", "update-check"}
     THEN Effects(initializeUpdater(UpdaterEffects, autoUpdateEnabled, updAvailable))
     ELSE UNCHANGED <<installs, notified>>
  /\ updPc' = "action"
  /\ UNCHANGED <<updCommand, updConfig, updAvailable, autoUpdateEnabled, offUpd>>

\* checkForConfigAndRun, up to loadConfig: checkForUpdates, then
\* performAutoUpdate(true)
CheckForConfigAndRun ==
  /\ updPc = "loaded"
  /\ updCommand = "bare"
  /\ Effects(performAutoUpdate(
               initializeUpdater(UpdaterEffects, autoUpdateEnabled, updAvailable),
               updAvailable, TRUE))
  /\ updPc' = "action"
  /\ UNCHANGED <<updCommand, updConfig, updAvailable, autoUpdateEnabled, offUpd>>

\* launchTUI, runCLI: updater = new ZLocalzUpdater(config.autoUpdate !== false)
Reconfigure ==
  /\ updPc = "action"
  /\ updCommand \in {"bare", "scan", "fix", "translate"}
  /\ autoUpdateEnabled' = updConfig.autoUpdate
  /\ Effects(initializeUpdater(UpdaterEffects, updConfig.autoUpdate, updAvailable))
  /\ updPc' = "running"
  /\ UNCHANGED <<updCommand, updConfig, updAvailable, offUpd>>

\* zlocalz update: performAutoUpdate(false)
UpdateCommand ==
  /\ updPc = "action"
  /\ updCommand = "update"
  /\ Effects(performAutoUpdate(UpdaterEffects, updAvailable, FALSE))
  /\ updPc' = "exited"
  /\ UNCHANGED <<updCommand, updConfig, updAvailable, autoUpdateEnabled, offUpd>>

\* zlocalz update --check: checkForUpdates, showReleaseNotes
UpdateCheckCommand ==
  /\ updPc = "action"
  /\ updCommand = "update-check"
  /\ Effects(initializeUpdater(UpdaterEffects, autoUpdateEnabled, updAvailable))
  /\ updPc' = "exited"
  /\ UNCHANGED <<updCommand, updConfig, updAvailable, autoUpdateEnabled, offUpd>>

UpdNext ==
  \/ LoadModule
  \/ PreAction
  \/ CheckForConfigAndRun
  \/ Reconfigure
  \/ UpdateCommand
  \/ UpdateCheckCommand

SpecUpd == UpdInit /\ [][UpdNext]_vars

----------------------------------------------------------------------------
(* The terminal interface (tui/app.ts LocalzApp, cli.ts launchTUI) *)

MaxSaves == 2

TuiLocales == {"es", "fr", "de"}

FilterTypes == {"missing", "extra", "icuError"}

\* the 'execute-command' listener of setupAppHandlers: 'save' writes every
\* target file; 'validate' writes none
executeCommand(command, files) ==
  IF command = "save" THEN files \cup tuiTargets ELSE files

\* EventEmitter.emit: the listeners of the event run; the only listener
\* cli.ts registers is that of 'execute-command'
emit(event, command, files) ==
  IF event \in listeners /\ event = "execute-command"
  THEN executeCommand(command, files)
  ELSE files

TuiInit ==
  /\ RunIdle
  /\ StrIdle
  /\ DiffIdle
  /\ IoIdle
  /\ CliIdle
  /\ TrIdle
  /\ UpdIdle
  /\ TabIdle
  /\ DiscIdle
  /\ LimIdle
  /\ LoopIdle
  /\ tuiPc = "constructed"
  /\ tuiTargets \in SUBSET TuiLocales
  /\ isLoading = TRUE
  /\ unsavedChanges = FALSE
  /\ tuiFilter = NoFilter
  /\ listeners = {}
  /\ emitted = {}
  /\ saves = 0
  /\ written = {}

\* app.initialize(sourceFile, targetFiles): hideLoading, emit('ready')
initialize ==
  /\ tuiPc = "constructed"
  /\ isLoading' = FALSE
  /\ emitted' = emitted \cup {"ready"}
  /\ written' = emit("ready", "", written)
  /\ tuiPc' = "initialized"
  /\ UNCHANGED <<tuiTargets, unsavedChanges, tuiFilter, listeners, saves, offTui>>

\* launchTUI: validate, updateIssues, setupAppHandlers, render
setupAppHandlers ==
  /\ tuiPc = "initialized"
  /\ listeners' = listeners \cup {"execute-command"}
  /\ tuiPc' = "rendered"
  /\ UNCHANGED <<tuiTargets, isLoading, unsavedChanges, tuiFilter, emitted,
                 saves, written, offTui>>

\* key 's': save(); keys are read once launchTUI has returned
save ==
  /\ tuiPc = "rendered"
  /\ saves < MaxSaves
  /\ IF isLoading
     THEN UNCHANGED <<emitted, written, unsavedChanges, saves>>
     ELSE /\ emitted' = emitted \cup {"save"}
          /\ written' = emit("save", "", written)
          /\ unsavedChanges' = FALSE
          /\ saves' = saves + 1
  /\ UNCHANGED <<tuiPc, tuiTargets, isLoading, tuiFilter, listeners, offTui>>

\* key 'r': refresh()
refresh ==
  /\ tuiPc = "rendered"
  /\ IF isLoading
     THEN UNCHANGED <<emitted, written>>
     ELSE /\ emitted' = emitted \cup {"refresh"}
          /\ written' = emit("refresh", "", written)
  /\ UNCHANGED <<tuiPc, tuiTargets, isLoading, unsavedChanges, tuiFilter,
                 listeners, saves, offTui>>

\* keys '1', '2', '3': setFilter(filterType)
setFilter ==
  /\ tuiPc = "rendered"
  /\ \E filterType \in FilterTypes :
       tuiFilter' = IF tuiFilter = filterType THEN NoFilter ELSE filterType
  /\ UNCHANGED <<tuiPc, tuiTargets, isLoading, unsavedChanges, listeners,
                 emitted, saves, written, offTui>>

\* key '0': clearFilter()
clearFilter ==
  /\ tuiPc = "rendered"
  /\ tuiFilter' = NoFilter
  /\ UNCHANGED <<tuiPc, tuiTargets, isLoading, unsavedChanges, listeners,
                 emitted, saves, written, offTui>>

TuiNext ==
  \/ initialize
  \/ setupAppHandlers
  \/ save
  \/ refresh
  \/ setFilter
  \/ clearFilter

SpecTui == TuiInit /\ [][TuiNext]_vars

----------------------------------------------------------------------------
(* A run with doAutoFix over one CSV file that holds a column per locale *)
(* (cli.ts runCLI, loadLocaleFiles; UniversalParser)                     *)

MaxRows == 2

TabSourceLocale == "en"

\* config.targetLocales, which is also the order of the locale columns
TabTargetLocales == <<"es", "fr">>

TabColumns == {"key", "en", "es", "fr"}

\* record[column] of a record csvParse built with columns: true
Field(record, column) == IF column \in DOMAIN record THEN record[column] ELSE Undefined

\* parseCsvEntries(records, locale) over the first n records, for a file with
\* no description, context or tags column and the default csvOptions
RECURSIVE parseCsvEntriesOf(_, _, _)
parseCsvEntriesOf(records, locale, n) ==
  IF n = 0 THEN [keys |-> <<>>, entries |-> <<>>]
  ELSE LET prev == parseCsvEntriesOf(records, locale, n - 1)
           record == records[n]
           key == Field(record, "key")
           value == Field(record, locale)
       IN  IF ~Falsy(key) /\ ~Falsy(value)
           THEN [keys |-> InsertKey(prev.keys, key[1]),
                 entries |-> [k \in DOMAIN prev.entries \cup {key[1]} |->
                                IF k = key[1]
                                THEN [value |-> value, metadata |-> record]
                                ELSE prev.entries[k]]]
           ELSE prev

\* the locale columns of the file: the columns of the first record but key
\* (description and context are not columns of these files)
allLocales(records) ==
  IF records = <<>> THEN {} ELSE DOMAIN records[1] \ {"key"}

\* the LocaleFile parseAllLocalesFromFile builds for a locale: raw holds the
\* two properties records and locale
TabLocaleFile(records, locale) ==
  LET parsed == parseCsvEntriesOf(records, locale, Len(records))
  IN  [locale |-> locale,
       format |-> "csv",
       keys |-> parsed.keys,
       entries |-> parsed.entries,
       raw |-> {RawValue("records"), RawValue("locale")},
       rawRecords |-> records]

\* parseAllLocalesFromFile(filePath), as a function of the locales it returns
parseAllLocalesFromFile(records) ==
  [locale \in allLocales(records) \cap ({TabSourceLocale} \cup Range(TabTargetLocales)) |->
     TabLocaleFile(records, locale)]

\* generateCsvContent(localeFile) read back by csvParse: one record per entry
\* with the key column and the column of the file's locale
generateCsvContentOf(localeFile) ==
  [i \in 1..Len(localeFile.keys) |->
     [column \in {"key", localeFile.locale} |->
        IF column = "key" THEN <<localeFile.keys[i]>>
        ELSE localeFile.entries[localeFile.keys[i]].value]]

TabValues == {<<>>, sOK}

\* the CSV files: up to MaxRows rows of distinct keys, every locale column
\* present, a cell empty or filled
TabDocuments ==
  UNION {{records \in [1..n -> [TabColumns -> {<<k>> : k \in Keys} \cup TabValues]] :
            /\ \A i \in 1..n : records[i]["key"] \in {<<k>> : k \in Keys}
            /\ \A i \in 1..n : \A c \in TabColumns \ {"key"} : records[i][c] \in TabValues
            /\ \A i, j \in 1..n : i # j => records[i]["key"] # records[j]["key"]} :
           n \in 1..MaxRows}

TabInit ==
  /\ RunIdle
  /\ StrIdle
  /\ DiffIdle
  /\ IoIdle
  /\ CliIdle
  /\ TrIdle
  /\ UpdIdle
  /\ TuiIdle
  /\ DiscIdle
  /\ LimIdle
  /\ LoopIdle
  /\ tabPc = "start"
  /\ tabConfig \in [preferOrder : {"none", "alphabetical"}]
  /\ tabDocument \in TabDocuments
  /\ tabLoaded = <<>>
  /\ tabTargets = <<>>
  /\ tabReports = <<>>
  /\ tabFixes = <<>>
  /\ tabWrites = 0

\* loadLocaleFiles: parseAllLocalesFromFile, sourceFile, targetFiles
LoadLocaleFiles ==
  /\ tabPc = "start"
  /\ tabLoaded' = parseAllLocalesFromFile(tabDocument)
  /\ tabTargets' = [locale \in Range(TabTargetLocales) |-> tabLoaded'[locale]]
  /\ tabPc' = "loaded"
  /\ UNCHANGED <<tabConfig, tabDocument, tabReports, tabFixes, tabWrites, offTab>>

\* runCLI: validator.validate()
TabValidate ==
  /\ tabPc = "loaded"
  /\ tabReports' = [locale \in Range(TabTargetLocales) |->
                      validateTarget(tabLoaded[TabSourceLocale], tabTargets[locale])]
  /\ tabPc' = "validated"
  /\ UNCHANGED <<tabConfig, tabDocument, tabLoaded, tabTargets, tabFixes, tabWrites, offTab>>

\* Fixer.autoFix on a file: the fix loop, then the order of preferOrder
TabAutoFixed(locale) ==
  LET sourceFile == tabLoaded[TabSourceLocale]
      cfg == [doAutoFix |-> TRUE, preferOrder |-> tabConfig.preferOrder]
      issues == tabReports[locale]
      loop == FixLoop(sourceFile, cfg, tabTargets[locale], issues, Len(issues))
  IN  [fixedFile |-> IF cfg.preferOrder = "alphabetical"
                     THEN reorderAlphabetically(loop.file)
                     ELSE loop.file,
       appliedFixes |-> loop.appliedFixes]

\* runCLI with doAutoFix: autoFix of every target file that has issues
TabAutoFix ==
  /\ tabPc = "validated"
  /\ tabTargets' = [locale \in Range(TabTargetLocales) |->
                      IF tabReports[locale] # <<>>
                      THEN TabAutoFixed(locale).fixedFile
                      ELSE tabTargets[locale]]
  /\ tabFixes' = [locale \in Range(TabTargetLocales) |->
                    IF tabReports[locale] # <<>>
                    THEN TabAutoFixed(locale).appliedFixes
                    ELSE <<>>]
  /\ tabPc' = "fixed"
  /\ UNCHANGED <<tabConfig, tabDocument, tabLoaded, tabReports, tabWrites, offTab>>

\* runCLI: parser.writeFile(file) for the next file of targetFiles; every
\* file of the table has the same path
TabWriteFile ==
  /\ tabPc = "fixed"
  /\ tabWrites < Len(TabTargetLocales)
  /\ tabDocument' = generateCsvContentOf(tabTargets[TabTargetLocales[tabWrites + 1]])
  /\ tabWrites' = tabWrites + 1
  /\ UNCHANGED <<tabPc, tabConfig, tabLoaded, tabTargets, tabReports, tabFixes, offTab>>

TabNext ==
  \/ LoadLocaleFiles
  \/ TabValidate
  \/ TabAutoFix
  \/ TabWriteFile

SpecTab == TabInit /\ [][TabNext]_vars

----------------------------------------------------------------------------
(* Discovery of the locale files (UniversalParser.discoverFiles) *)

MaxFiles == 2

\* the paths a directory can hold, in the order of Array.prototype.sort
SortedPaths ==
  <<"/l10n/app_en.arb", "/l10n/app_en.csv", "/l10n/app_en.json", "/l10n/app_en.tsv",
    "/l10n/app_en.txt", "/l10n/app_en.yaml", "/l10n/app_en.yml",
    "/l10n/node_modules/pkg/package.json">>

PathRank(path) == CHOOSE i \in 1..Len(SortedPaths) : SortedPaths[i] = path

\* path.extname(filePath).toLowerCase()
extname(path) ==
  CASE path = "/l10n/app_en.arb" -> ".arb"
    [] path = "/l10n/app_en.csv" -> ".csv"
    [] path = "/l10n/app_en.json" -> ".json"
    [] path = "/l10n/app_en.tsv" -> ".tsv"
    [] path = "/l10n/app_en.txt" -> ".txt"
    [] path = "/l10n/app_en.yaml" -> ".yaml"
    [] path = "/l10n/app_en.yml" -> ".yml"
    [] path = "/l10n/node_modules/pkg/package.json" -> ".json"

detectFormat(filePath) ==
  CASE extname(filePath) = ".arb" -> "arb"
    [] extname(filePath) = ".json" -> "json"
    [] extname(filePath) \in {".yaml", ".yml"} -> "yaml"
    [] extname(filePath) = ".csv" -> "csv"
    [] extname(filePath) = ".tsv" -> "tsv"
    [] OTHER -> "json"

AllPatterns == {"**/*.arb", "**/*.json", "**/*.yaml", "**/*.yml", "**/*.csv", "**/*.tsv"}

getFilePatterns(format) ==
  CASE format = "arb" -> {"**/*.arb"}
    [] format = "json" -> {"**/*.json"}
    [] format = "yaml" -> {"**/*.yaml", "**/*.yml"}
    [] format = "csv" -> {"**/*.csv"}
    [] format = "tsv" -> {"**/*.tsv"}
    [] OTHER -> AllPatterns

\* the extension a pattern of the form **/*.ext asks for
PatternExt(pattern) ==
  CASE pattern = "**/*.arb" -> ".arb"
    [] pattern = "**/*.json" -> ".json"
    [] pattern = "**/*.yaml" -> ".yaml"
    [] pattern = "**/*.yml" -> ".yml"
    [] pattern = "**/*.csv" -> ".csv"
    [] pattern = "**/*.tsv" -> ".tsv"
    [] pattern = "**/*.txt" -> ".txt"

\* ignore: ['**/node_modules/**', '**/build/**', '**/.*/**']
Ignored(path) == path = "/l10n/node_modules/pkg/package.json"

\* glob(patterns, {cwd, absolute, ignore}) over the files of the directory
glob(patterns, dir) ==
  {path \in dir : ~Ignored(path) /\ \E p \in patterns : PatternExt(p) = extname(path)}

\* files.sort()
RECURSIVE SortPaths(_)
SortPaths(paths) ==
  IF paths = {} THEN <<>>
  ELSE LET first == CHOOSE p \in paths : \A x \in paths : PathRank(p) <= PathRank(x)
       IN  <<first>> \o SortPaths(paths \ {first})

\* fileFormat is always set: ConfigSchema gives it the default 'auto'
discoverFiles(cfg, dir) ==
  LET format == cfg.fileFormat
      patterns == IF cfg.filePattern # NoPattern THEN {cfg.filePattern}
                  ELSE getFilePatterns(format)
  IN  SortPaths(glob(patterns, dir))

\* the values ConfigSchema accepts for fileFormat
FileFormats == {"arb", "json", "yaml", "yml", "csv", "tsv", "auto"}

DiscInit ==
  /\ RunIdle
  /\ StrIdle
  /\ DiffIdle
  /\ IoIdle
  /\ CliIdle
  /\ TrIdle
  /\ UpdIdle
  /\ TuiIdle
  /\ TabIdle
  /\ LimIdle
  /\ LoopIdle
  /\ discPc = "start"
  /\ discConfig \in [fileFormat : FileFormats, filePattern : {NoPattern, "**/*.txt"}]
  /\ discDir \in {dir \in SUBSET Range(SortedPaths) : Cardinality(dir) <= MaxFiles}
  /\ discFiles = <<>>

DiscoverLocaleFiles ==
  /\ discPc = "start"
  /\ discFiles' = discoverFiles(discConfig, discDir)
  /\ discPc' = "done"
  /\ UNCHANGED <<discConfig, discDir, offDisc>>

DiscNext == DiscoverLocaleFiles

SpecDisc == DiscInit /\ [][DiscNext]_vars

----------------------------------------------------------------------------
(* Claims about validate and autoFix over locale files *)

Source == heap["source"]
Target == heap["target"]
Fixed == heap[fixedFile]

KeySet(file) == DOMAIN file.entries

Validated == pc \in {"validated", "tui"}

\* the positions of the issues of one type and key
IssuesAt(issues, type, key) ==
  {i \in 1..Len(issues) : issues[i].type = type /\ issues[i].key = key}

HasIssueOfType(issues, types) == \E i \in 1..Len(issues) : issues[i].type \in types

\* C1: after an authorized autoFix over the issues validate produced, a second
\* validation of the fixed file against the source reports no missing, extra
\* or duplicate issue.
C1_FixIdempotence ==
  (pc = "fixed" /\ config.doAutoFix) =>
    ~HasIssueOfType(validateTarget(Source, Fixed), {"missing", "extra", "duplicate"})

\* C2: the keys with a missing issue are exactly keys(S) \ keys(T), the keys
\* with an extra issue exactly keys(T) \ keys(S), one issue per key; a missing
\* issue is an error carrying the source value, an extra issue a warning.
C2_MissingExtraSymmetry ==
  Validated =>
    /\ \A k \in Keys :
         /\ Cardinality(IssuesAt(reports.issues, "missing", k)) =
              (IF k \in KeySet(Source) \ KeySet(Target) THEN 1 ELSE 0)
         /\ Cardinality(IssuesAt(reports.issues, "extra", k)) =
              (IF k \in KeySet(Target) \ KeySet(Source) THEN 1 ELSE 0)
    /\ \A i \in 1..Len(reports.issues) :
         LET issue == reports.issues[i]
         IN  /\ issue.type = "missing" =>
                  /\ issue.severity = "error"
                  /\ issue.sourceValue = Source.entries[issue.key].value
             /\ issue.type = "extra" => issue.severity = "warning"

\* a validated pair of files with a key only in the source and one only in the target
C2_Witness ==
  /\ Validated
  /\ KeySet(Source) \ KeySet(Target) # {}
  /\ KeySet(Target) \ KeySet(Source) # {}
  /\ HasIssueOfType(reports.issues, {"missing"})
  /\ HasIssueOfType(reports.issues, {"extra"})

\* the key a duplicate issue names as the first holder of the value
CanonicalKey(issue) == issue.message[2]

\* C4: after an authorized autoFix, every key flagged duplicate is gone from
\* the fixed file and the first key of its group is still there.
C4_DuplicateKeepsCanonical ==
  (pc = "fixed" /\ config.doAutoFix) =>
    \A i \in 1..Len(reports.issues) :
      reports.issues[i].type = "duplicate" =>
        /\ reports.issues[i].key \notin KeySet(Fixed)
        /\ CanonicalKey(reports.issues[i]) \in KeySet(Fixed)

\* C5: after an authorized autoFix, every surviving entry that had a
\* formatting issue equals its trimmed form; with a and b both "  OK  " and
\* both in the source, b is gone and a is "OK".
C5_FormattingRepair ==
  (pc = "fixed" /\ config.doAutoFix) =>
    /\ \A i \in 1..Len(reports.issues) :
         LET issue == reports.issues[i]
         IN  (issue.type = "formatting" /\ issue.key \in KeySet(Fixed)) =>
               Fixed.entries[issue.key].value = Trim(Fixed.entries[issue.key].value)
    /\ ( /\ KeySet(Target) = {"a", "b"}
         /\ Target.keys = <<"a", "b">>
         /\ KeySet(Source) = {"a", "b"}
         /\ Target.entries["a"].value = sPaddedOK
         /\ Target.entries["b"].value = sPaddedOK ) =>
           (KeySet(Fixed) = {"a"} /\ Fixed.entries["a"].value = sOK)

\* C7: autoFix leaves the file it was given, and the source file, as they
\* were, whatever the authorization and the ordering policy.
C7_AutoFixOnCopy ==
  [][pc' = "fixed" =>
       (heap'["target"] = heap["target"] /\ heap'["source"] = heap["source"])]_vars

\* an authorized autoFix whose fixed file differs from the file it was given
C7_Witness ==
  /\ pc = "fixed"
  /\ config.doAutoFix
  /\ appliedFixes # <<>>
  /\ KeySet(Fixed) # KeySet(Target)
  /\ Fixed.keys # Target.keys

TypeRank(type) ==
  CASE type = "missing" -> 1
    [] type = "extra" -> 2
    [] type = "duplicate" -> 3
    [] type = "placeholderMismatch" -> 4
    [] type = "icuError" -> 5
    [] type = "formatting" -> 6

FixTypeFor(type) ==
  CASE type = "missing" -> "addMissing"
    [] type = "extra" -> "removeExtra"
    [] type = "duplicate" -> "removeDuplicate"
    [] type = "placeholderMismatch" -> "fixPlaceholder"
    [] type = "icuError" -> "fixICU"
    [] type = "formatting" -> "fixFormatting"

\* C10: an issue list is ordered missing, extra, duplicate,
\* placeholderMismatch, icuError, formatting, and the applied fixes follow the
\* issue list: fix i is the fix of issue i.
C10_PassOrder ==
  /\ pc \in {"validated", "tui", "fixed"} =>
       \A i \in 1..Len(reports.issues), j \in 1..Len(reports.issues) :
         i < j => TypeRank(reports.issues[i].type) <= TypeRank(reports.issues[j].type)
  /\ (pc = "fixed" /\ config.doAutoFix) =>
       /\ Len(appliedFixes) = Len(reports.issues)
       /\ \A i \in 1..Len(appliedFixes) :
            /\ appliedFixes[i].key = reports.issues[i].key
            /\ appliedFixes[i].type = FixTypeFor(reports.issues[i].type)

\* an authorized autoFix over an issue list holding all six types
C10_Witness ==
  /\ pc = "fixed"
  /\ config.doAutoFix
  /\ \A t \in {"missing", "extra", "duplicate", "placeholderMismatch",
               "icuError", "formatting"} : HasIssueOfType(reports.issues, {t})
  /\ Len(appliedFixes) = Len(reports.issues)

----------------------------------------------------------------------------
(* Claims about the fix generators *)

\* the value with every placeholder token kept and every maximal run of text
\* outside the placeholder tokens replaced by TODO
RECURSIVE TemplateFrom(_, _, _)
TemplateFrom(s, i, inText) ==
  IF i > Len(s) THEN <<>>
  ELSE LET j == IF s[i] = "{" THEN FirstClose(s, i + 1) ELSE 0
       IN  IF j > i + 1
           THEN SubSeq(s, i, j) \o TemplateFrom(s, j + 1, FALSE)
           ELSE (IF inText THEN <<>> ELSE TODO) \o TemplateFrom(s, i + 1, TRUE)

\* C3: the addMissing fix keeps the source's placeholder tokens, in order,
\* replaces all text outside them by TODO, and is exactly TODO when the source
\* value has no placeholder.
C3_PlaceholderPreservingTemplate ==
  strPc = "addMissing" =>
    /\ strFix.type = "addMissing"
    /\ extractPlaceholders(strFix.newValue) = extractPlaceholders(strSource)
    /\ extractPlaceholders(strSource) = <<>> => strFix.newValue = TODO
    /\ extractPlaceholders(strSource) # <<>> =>
         strFix.newValue = TemplateFrom(strSource, 1, FALSE)

\* C6: the fixPlaceholder fix carries, at every index below the shorter of the
\* two placeholder lists, the source's placeholder name.
C6_PositionalRemap ==
  (strPc = "fixPlaceholder" /\ strFix.newValue # Undefined) =>
    LET P == extractPlaceholders(strSource)
        Q == extractPlaceholders(strTarget)
        R == extractPlaceholders(strFix.newValue)
    IN  \A i \in 1..Min(Len(P), Len(Q)) : i <= Len(R) /\ R[i] = P[i]

----------------------------------------------------------------------------
(* Claims about the order of the fixed file *)

\* the file autoFix holds after its fix loop, before it re-orders the entries
BeforeReorder ==
  FixLoop(Source, config, Target, reports.issues, Len(reports.issues)).file

\* C11: with preferOrder = "mirror-source" the fixed file lists the source's
\* keys that it holds, in source order, and then the keys only the target has,
\* in the order they had before the re-ordering; no key is added or dropped.
C11_MirrorSourceOrder ==
  (pc = "fixed" /\ config.preferOrder = "mirror-source") =>
    LET InFixed(k) == HasKey(Fixed, k)
        TargetOnly(k) == k \notin Range(Source.keys)
    IN  /\ Fixed.keys = SelectSeq(Source.keys, InFixed)
                          \o SelectSeq(BeforeReorder.keys, TargetOnly)
        /\ Range(Fixed.keys) = KeySet(BeforeReorder)
        /\ KeySet(Fixed) = KeySet(BeforeReorder)

----------------------------------------------------------------------------
(* Claims about the diff *)

DiffLocales == {"es", "fr"}

\* the patches generatePatches returned for the file of one locale
PatchesFor(locale) ==
  {i \in 1..Len(patches) : patches[i].path = <<"l10n", locale>>}

\* the locale is in both maps and its two files serialize differently
MateriallyChanged(locale) ==
  /\ MapHas(originalFiles, locale)
  /\ MapHas(modifiedFiles, locale)
  /\ serializeARB(MapGet(originalFiles, locale))
       # serializeARB(MapGet(modifiedFiles, locale))

\* C12: generatePatches returns exactly one Patch for each locale that is in
\* both maps with differing serializations, built from the two files of that
\* locale, and no Patch for any other locale.
C12_OnePatchPerChangedLocale ==
  diffPc = "done" =>
    /\ \A locale \in DiffLocales :
         IF MateriallyChanged(locale)
         THEN /\ Cardinality(PatchesFor(locale)) = 1
              /\ \A i \in PatchesFor(locale) :
                   patches[i] = generatePatch(MapGet(originalFiles, locale),
                                              MapGet(modifiedFiles, locale))
         ELSE PatchesFor(locale) = {}
    /\ Len(patches) = Cardinality({l \in DiffLocales : MateriallyChanged(l)})

\* one locale changed and patched, the other in both maps and unchanged
C12_Witness ==
  /\ diffPc = "done"
  /\ Len(patches) = 1
  /\ MateriallyChanged("es")
  /\ MapHas(originalFiles, "fr")
  /\ MapHas(modifiedFiles, "fr")

\* the two files hold the same keys, entries and locale marker, in another order
ReorderedOnly(originalFile, modifiedFile) ==
  /\ originalFile.entries = modifiedFile.entries
  /\ originalFile.raw = modifiedFile.raw
  /\ originalFile.locale = modifiedFile.locale
  /\ originalFile.keys # modifiedFile.keys

\* C13: when the modified file differs from the original only in the order of
\* its entries, both serialize to the same text and no Patch is emitted for
\* the locale.
C13_ReorderInsensitive ==
  (diffPc = "done" /\ ReorderedOnly(MapGet(originalFiles, "es"),
                                    MapGet(modifiedFiles, "es"))) =>
    /\ serializeARB(MapGet(originalFiles, "es"))
         = serializeARB(MapGet(modifiedFiles, "es"))
    /\ PatchesFor("es") = {}

\* the file with its two keys swapped, as reorderAlphabetically leaves it
C13_Witness ==
  /\ diffPc = "done"
  /\ ReorderedOnly(MapGet(originalFiles, "es"), MapGet(modifiedFiles, "es"))
  /\ MapGet(modifiedFiles, "es") = reorderAlphabetically(MapGet(originalFiles, "es"))
  /\ MapGet(originalFiles, "es").entries["a"].metadata # NoMetadata
  /\ PatchesFor("es") = {}

----------------------------------------------------------------------------
(* Claims about parse and write *)

\* two optional fields agree: the same value, or both unset
SameField(x, y) == x = y \/ (Falsy(x) /\ Falsy(y))

\* the "@@locale" marker a parsed file holds
LocaleMarker(file) ==
  IF file.format \in {"arb", "json"} THEN file.raw.marker ELSE Undefined

\* C14: parsing what writeFile wrote of a parsed document yields the same keys
\* and, per key, the same value, description, placeholders, tags and context,
\* and the same locale marker; the key order changes only under the
\* alphabetical ordering policy.
C14_RoundTrip ==
  ioPc = "reparsed" =>
    /\ KeySet(ioReparsed) = KeySet(ioFile)
    /\ \A k \in KeySet(ioFile) \cap KeySet(ioReparsed) :
         /\ ioReparsed.entries[k].value = ioFile.entries[k].value
         /\ SameField(ioReparsed.entries[k].description, ioFile.entries[k].description)
         /\ SameField(ioReparsed.entries[k].placeholders, ioFile.entries[k].placeholders)
         /\ SameField(ioReparsed.entries[k].context, ioFile.entries[k].context)
         /\ ioReparsed.entries[k].tags = ioFile.entries[k].tags
    /\ SameField(LocaleMarker(ioReparsed), LocaleMarker(ioFile))
    /\ ioConfig.preferOrder # "alphabetical" => ioReparsed.keys = ioFile.keys

----------------------------------------------------------------------------
(* Claims about an invocation *)

\* the invocation has ended, or sits in the TUI
CliEnded == cliPc \in {"exited", "done", "tui"}

WellFormedLocales ==
  {discovered[i].locale : i \in {j \in 1..Len(discovered) : ~discovered[j].malformed}}

MalformedLocales ==
  {discovered[i].locale : i \in {j \in 1..Len(discovered) : discovered[j].malformed}}

\* C15: when the source document and at least one target document are
\* well-formed and another target document is malformed, the invocation ends
\* with a validation report for every well-formed target.
C15_MalformedIsFatalToItself ==
  (/\ CliEnded
   /\ cliConfig.sourceLocale \in WellFormedLocales
   /\ WellFormedLocales \cap cliConfig.targetLocales # {}
   /\ MalformedLocales \cap cliConfig.targetLocales # {}) =>
    WellFormedLocales \cap cliConfig.targetLocales \subseteq cliReports

\* C16: once the source locale was not found among the parsed documents, the
\* invocation fails, its error names the locales found, and no validate,
\* autoFix, translate, report or locale-file write step is executed.
C16_MissingSourceIsFatal ==
  cliError.kind = "SourceNotFound" =>
    /\ cliPc \in {"thrown", "exited"}
    /\ cliSteps = {}
    /\ cliPc = "exited" => cliReported = [kind |-> "SourceNotFound",
                                           locales |-> allLocaleFiles]

----------------------------------------------------------------------------
(* Claims about the Translator *)

\* the chunk the i-th requested key was sent in
ChunkOf(i) == ((i - 1) \div ChunkSize) + 1

----------------------------------------------------------------------------
(* Claims about the updater *)

\* C18: with autoUpdate = false in the configuration, no npm install is
\* started in an invocation of the bare command, scan, fix or translate.
C18_AutoUpdateCanBeDisabled ==
  (~updConfig.autoUpdate /\ updCommand \in {"bare", "scan", "fix", "translate"}) =>
    installs = <<>>

\* C19: when the available update is a major one, no silent npm install is
\* started; the only install of a major update is that of the update command.
C19_MajorNeedsConfirmation ==
  updAvailable = "major" =>
    \A i \in 1..Len(installs) : ~installs[i].silent /\ updCommand = "update"

----------------------------------------------------------------------------
(* Claims about the terminal interface *)

\* C20: once loading has finished, a press of the save key has every target
\* locale document written by writeFile, and unsavedChanges is false only
\* after that.
C20_SaveWritesToDisk ==
  (saves > 0 /\ ~isLoading /\ ~unsavedChanges) => tuiTargets \subseteq written

----------------------------------------------------------------------------
(* Claims about unmatched placeholders *)

\* C21: when the target has more placeholders than the source, the
\* fixPlaceholder fix keeps every target placeholder at an index beyond the
\* source's list, under its own name and at its own place.
C21_TrailingUntouched ==
  (strPc = "fixPlaceholder" /\ strFix.newValue # Undefined) =>
    LET P == extractPlaceholders(strSource)
        Q == extractPlaceholders(strTarget)
        R == extractPlaceholders(strFix.newValue)
    IN  Len(Q) > Len(P) =>
          /\ Len(R) = Len(Q)
          /\ \A i \in (Len(P) + 1)..Len(Q) : R[i] = Q[i]

----------------------------------------------------------------------------
(* Claims about the checks of validate *)

\* the place in the target of the first key whose trimmed value is that of k
FirstHolder(k) ==
  CHOOSE i \in 1..Len(Target.keys) :
    /\ Trim(Target.entries[Target.keys[i]].value) = Trim(Target.entries[k].value)
    /\ \A j \in 1..(i - 1) :
         Trim(Target.entries[Target.keys[j]].value) # Trim(Target.entries[k].value)

C23_PlaceholderRule ==
  strPc = "checked" =>
    LET P == extractPlaceholders(strSource)
        Q == extractPlaceholders(strTarget)
    IN  /\ strIssues = <<>> <=> (Len(P) = Len(Q) /\ Range(P) = Range(Q))
        /\ Len(strIssues) <= 1
        /\ \A i \in 1..Len(strIssues) :
             /\ strIssues[i].type = "placeholderMismatch"
             /\ strIssues[i].severity = "error"

\* C24: a key whose source is the plural message with branches one and other
\* has exactly one icuError, an error, when its target is a message of another
\* tree shape; every target value of the model is one: the plural with the
\* branch other alone lacks the branch one, the others are no plural at all.
C24_TreeShapeComparison ==
  Validated =>
    \A k \in KeySet(Source) \cap KeySet(Target) :
      Source.entries[k].value = sPluralOneOther =>
        /\ Cardinality(IssuesAt(reports.issues, "icuError", k)) = 1
        /\ \A i \in IssuesAt(reports.issues, "icuError", k) :
             reports.issues[i].severity = "error"

\* two adjacent spaces with a character that is no space before and after them
HasInteriorSpaces(v) ==
  \E i \in 1..(Len(v) - 1) :
    /\ v[i] = " " /\ v[i + 1] = " "
    /\ \E j \in 1..(i - 1) : v[j] # " "
    /\ \E j \in (i + 2)..Len(v) : v[j] # " "

\* the formatting issues of a key with the given message
FormattingAt(k, message) ==
  {i \in IssuesAt(reports.issues, "formatting", k) : reports.issues[i].message = message}

\* C25: a target entry has one whitespace issue, suggesting the trimmed value,
\* exactly when it differs from its trimmed form, and one consecutive-spaces
\* issue, suggesting the collapsed value, exactly when two or more spaces lie
\* together between characters that are no spaces; both are warnings.
C25_FormattingCheck ==
  Validated =>
    \A k \in KeySet(Target) :
      LET v == Target.entries[k].value
          edge == FormattingAt(k, <<"Value has leading or trailing whitespace">>)
          runs == FormattingAt(k, <<"Value contains multiple consecutive spaces">>)
      IN  /\ IssuesAt(reports.issues, "formatting", k) = edge \cup runs
          /\ Cardinality(edge) = (IF v # Trim(v) THEN 1 ELSE 0)
          /\ Cardinality(runs) = (IF HasInteriorSpaces(v) THEN 1 ELSE 0)
          /\ \A i \in edge : reports.issues[i].suggestion = Trim(v)
          /\ \A i \in runs : reports.issues[i].suggestion = CollapseWhitespace(v)
          /\ \A i \in edge \cup runs : reports.issues[i].severity = "warning"

----------------------------------------------------------------------------
(* Claims about a run over a tabular file *)

\* the keys of the records a file's raw document holds
RawRecordKeys(file) == {file.rawRecords[i]["key"][1] : i \in 1..Len(file.rawRecords)}

\* C26: in an autoFix over the issues of validate, every addMissing fix is for
\* a key the target did not hold, and after the removeExtra and
\* removeDuplicate fixes the fixed file holds neither the entry of the removed
\* key nor, in raw, its value or a record keyed to it.
C26_NoCollisionNoDangling ==
  tabPc = "fixed" =>
    \A locale \in Range(TabTargetLocales) :
      LET fixes == tabFixes[locale]
          fixed == tabTargets[locale]
      IN  \A i \in 1..Len(fixes) :
            /\ fixes[i].type = "addMissing" =>
                 /\ fixes[i].key \notin KeySet(tabLoaded[locale])
                 /\ \A j \in 1..(i - 1) : fixes[j].key # fixes[i].key
            /\ fixes[i].type \in {"removeExtra", "removeDuplicate"} =>
                 /\ fixes[i].key \notin KeySet(fixed)
                 /\ RawValue(fixes[i].key) \notin fixed.raw
                 /\ RawMeta(fixes[i].key) \notin fixed.raw
                 /\ fixes[i].key \notin RawRecordKeys(fixed)

\* the target locales whose file has been written
WrittenLocales == {TabTargetLocales[i] : i \in 1..tabWrites}

\* C27: once the file of one target locale, or of each in turn, is written,
\* parsing the CSV file for any other locale, the source included, gives the
\* keys and values it gave before the write.
C27_OtherLocalesPreserved ==
  tabWrites > 0 =>
    \A locale \in (DOMAIN tabLoaded) \ WrittenLocales :
      LET before == tabLoaded[locale]
          after == parseCsvEntriesOf(tabDocument, locale, Len(tabDocument))
      IN  /\ after.keys = before.keys
          /\ \A k \in Range(before.keys) : after.entries[k].value = before.entries[k].value

----------------------------------------------------------------------------
(* Claims about discovery *)

\* C28: with no filePattern set, discovery under a fileFormat other than auto
\* returns only paths detectFormat gives that format (yaml for yml), discovery
\* under auto returns every path outside the ignored directories that one of
\* the supported patterns matches, and the list is sorted.
C28_DiscoveryByFormat ==
  (discPc = "done" /\ discConfig.filePattern = NoPattern) =>
    /\ \A i \in 1..Len(discFiles) :
         /\ discFiles[i] \in discDir
         /\ discConfig.fileFormat # "auto" =>
              detectFormat(discFiles[i]) =
                (IF discConfig.fileFormat = "yml" THEN "yaml" ELSE discConfig.fileFormat)
    /\ discConfig.fileFormat = "auto" =>
         Range(discFiles) = glob(AllPatterns, discDir)
    /\ \A i, j \in 1..Len(discFiles) :
         i < j => PathRank(discFiles[i]) < PathRank(discFiles[j])

----------------------------------------------------------------------------
(* Claims about the translation calls in flight *)

----------------------------------------------------------------------------
(* Claims about repeated runs *)

\* a further run with doAutoFix leaves the target file as it is
AtFixpoint == FixedTarget(heap, config) = heap["target"]

\* C30: runs of validate and autoFix, one on the result of the other, never
\* come back to a target file an earlier run started from, unless that file
\* is one a further run leaves unchanged; the files being finitely many, the
\* series then ends in such a file.
C30_Convergence ==
  (pc = "loaded" /\ heap["target"] \in seenTargets) => AtFixpoint

====
